---- MODULE Spec2Model ----
(***************************************************************************)
(* ghdash: the reactive state core.  The reducer (app/update.rs) over the  *)
(* application state (app/state.rs), the event loop and the side-effect    *)
(* scheduler (app/event_loop.rs) and the TTL cache (cache/store.rs).       *)
(*                                                                         *)
(* Text is a sequence of one-character strings; Option<T> is a sequence of *)
(* length 0 (None) or 1 (Some).                                            *)
(***************************************************************************)
EXTENDS Integers, Sequences, FiniteSets, Bags, TLC

VARIABLES
    config,     \* AppConfig snapshot plus cache_store: Option<CacheStore>
    state,      \* AppState, owned by run_loop
    loop,       \* position of run_loop: "start", "running" or "exited"
    queue,      \* the unbounded mpsc channel action_tx -> action_rx
    tasks,      \* the spawned fetch tasks that have not finished, a bag
    permits,    \* free permits of the semaphore
    cache,      \* the cache directory: file name -> file content
    now,        \* the wall clock, in seconds
    opened,     \* number of OpenUrl blocking tasks started
    hist        \* history: what the last step did (not program state)

vars == <<config, state, loop, queue, tasks, permits, cache, now, opened, hist>>

----------------------------------------------------------------------------
(* Bounds of the model *)

MaxRefresh == 1     \* Refresh transitions applied in one run
MaxTasks == 6       \* fetch tasks alive at once
MaxQueue == 2       \* actions waiting on the channel
MaxFaults == 1      \* data-source errors and failed cache writes in one run
MaxOpened == 1      \* URLs handed to the browser in one run
MaxQuery == 1       \* characters typed into the search query
MaxSteps == 6       \* actions applied in one run of the reducer alone

----------------------------------------------------------------------------
(* Text *)

None == <<>>
Some(x) == <<x>>

\* The characters in use, in byte order.
Alphabet == <<"/", "A", "\\", "_", "a", "b", "r", "z">>

Ord(c) == CHOOSE i \in 1..Len(Alphabet) : Alphabet[i] = c

RECURSIVE StrLess(_, _)
\* String's Ord: byte-wise lexicographic, a proper prefix is smaller.
StrLess(a, b) ==
    IF b = <<>> THEN FALSE
    ELSE IF a = <<>> THEN TRUE
    ELSE IF Head(a) # Head(b) THEN Ord(Head(a)) < Ord(Head(b))
    ELSE StrLess(Tail(a), Tail(b))

InsertSorted(x, sorted, Less(_, _)) ==
    LET k == CHOOSE k \in 0..Len(sorted) :
                 /\ \A j \in 1..k : ~Less(x, sorted[j])
                 /\ k = Len(sorted) \/ Less(x, sorted[k + 1])
    IN SubSeq(sorted, 1, k) \o <<x>> \o SubSeq(sorted, k + 1, Len(sorted))

\* A stable sort (slice::sort, slice::sort_by): equal elements keep their order.
SortBy(seq, Less(_, _)) ==
    LET F[i \in 0..Len(seq)] ==
            IF i = 0 THEN <<>> ELSE InsertSorted(seq[i], F[i - 1], Less)
    IN F[Len(seq)]

RECURSIVE SetToSeq(_)
SetToSeq(S) ==
    IF S = {} THEN <<>>
    ELSE LET x == CHOOSE y \in S : TRUE IN <<x>> \o SetToSeq(S \ {x})

Filter(seq, P(_)) ==
    LET F[i \in 0..Len(seq)] ==
            IF i = 0 THEN <<>>
            ELSE IF P(seq[i]) THEN Append(F[i - 1], seq[i]) ELSE F[i - 1]
    IN F[Len(seq)]

Range(seq) == {seq[i] : i \in 1..Len(seq)}

----------------------------------------------------------------------------
(* github/models.rs *)

Repo(owner, name, prs, archived) ==
    [owner |-> owner, name |-> name, open_pr_count |-> prs, is_archived |-> archived]

full_name(repo) == repo.owner \o <<"/">> \o repo.name

PullRequest(owner, name, number, title, author, updated) ==
    [repo_owner |-> owner, repo_name |-> name, number |-> number, title |-> title,
     author |-> author, updated_at |-> updated]

repo_full_name(pr) == pr.repo_owner \o <<"/">> \o pr.repo_name

\* PullRequest.url as the data source fills it: one URL per PR identity.
pr_url(pr) == <<repo_full_name(pr), pr.number>>

RateLimitDefault == [remaining |-> 0, limit |-> 0]

----------------------------------------------------------------------------
(* app/state.rs *)

MyInbox == [kind |-> "MyInbox"]
AllPrs == [kind |-> "AllPrs"]
OrgNode(org) == [kind |-> "Org", org |-> org]
RepoNode(repo) ==
    [kind |-> "Repo", owner |-> repo.owner, name |-> repo.name,
     open_prs |-> repo.open_pr_count]

ViewInbox == [kind |-> "Inbox"]
ViewAllOpenPrs == [kind |-> "AllOpenPrs"]
ViewRepoPrList(owner, name) == [kind |-> "RepoPrList", owner |-> owner, name |-> name]
ViewOrgOverview(org) == [kind |-> "OrgOverview", org |-> org]

RepoBefore(a, b) ==
    \/ b.open_pr_count < a.open_pr_count
    \/ a.open_pr_count = b.open_pr_count /\ StrLess(a.name, b.name)

ArchivedKept(r) == TRUE

NotArchived(r) == ~r.is_archived

RECURSIVE OrgSubtrees(_, _, _)
OrgSubtrees(org_names, orgs, nav_expanded) ==
    IF org_names = <<>> THEN <<>>
    ELSE LET org_name == Head(org_names)
             repos == IF org_name \in nav_expanded /\ org_name \in DOMAIN orgs
                      THEN SortBy(Filter(orgs[org_name].repos, NotArchived), RepoBefore)
                      ELSE <<>>
         IN <<OrgNode(org_name)>> \o [i \in 1..Len(repos) |-> RepoNode(repos[i])]
              \o OrgSubtrees(Tail(org_names), orgs, nav_expanded)

\* The node list rebuild_nav_tree computes from orgs and nav_expanded.
NavTree(orgs, nav_expanded) ==
    <<MyInbox, AllPrs>>
        \o OrgSubtrees(SortBy(SetToSeq(DOMAIN orgs), StrLess), orgs, nav_expanded)

ClampCursorOff(cursor, len) == cursor

ClampCursor(cursor, len) == IF len # 0 /\ cursor >= len THEN len - 1 ELSE cursor

RebuildFollowingSelection(s) ==
    LET nodes == NavTree(s.orgs, s.nav_expanded)
        at == {i \in 1..Len(nodes) :
                  /\ s.content_view.kind = "RepoPrList"
                  /\ nodes[i].kind = "Repo"
                  /\ nodes[i].owner = s.content_view.owner
                  /\ nodes[i].name = s.content_view.name}
    IN [s EXCEPT !.nav_nodes = nodes,
                 !.nav_cursor = IF at # {} THEN (CHOOSE i \in at : TRUE) - 1
                                ELSE ClampCursor(s.nav_cursor, Len(nodes))]

rebuild_nav_tree(s) ==
    LET nodes == NavTree(s.orgs, s.nav_expanded)
    IN [s EXCEPT !.nav_nodes = nodes,
                 !.nav_cursor = ClampCursor(s.nav_cursor, Len(nodes))]

new(org_names) ==
    rebuild_nav_tree(
        [orgs |-> [name \in Range(org_names) |-> [name |-> name, repos |-> <<>>]],
         all_open_prs |-> <<>>,
         inbox |-> <<>>,
         rate_limit |-> RateLimitDefault,
         last_refresh |-> None,
         nav_nodes |-> <<>>,
         nav_cursor |-> 0,
         nav_expanded |-> Range(org_names),
         focused_pane |-> "Navigation",
         content_view |-> ViewInbox,
         content_cursor |-> 0,
         search_active |-> FALSE,
         search_query |-> <<>>,
         loading |-> TRUE,
         loading_orgs |-> {},
         error_message |-> None,
         should_quit |-> FALSE])

Lower(c) == IF c = "A" THEN "a" ELSE c

CaseKept(text) == text

to_lowercase(text) == [i \in 1..Len(text) |-> Lower(text[i])]

\* str::contains
contains(text, pat) ==
    \E i \in 0..(Len(text) - Len(pat)) : SubSeq(text, i + 1, i + Len(pat)) = pat

filtered_prs(s, prs) ==
    IF s.search_query = <<>> THEN prs
    ELSE LET query == to_lowercase(s.search_query)
             Matches(pr) ==
                 \/ contains(to_lowercase(pr.title), query)
                 \/ contains(to_lowercase(pr.author), query)
                 \/ contains(to_lowercase(pr.repo_name), query)
                 \/ contains(to_lowercase(repo_full_name(pr)), query)
         IN Filter(prs, Matches)

current_pr_list(s) ==
    CASE s.content_view.kind = "Inbox" -> filtered_prs(s, s.inbox)
      [] s.content_view.kind = "AllOpenPrs" -> filtered_prs(s, s.all_open_prs)
      [] s.content_view.kind = "RepoPrList" ->
            LET fname == s.content_view.owner \o <<"/">> \o s.content_view.name
                InRepo(pr) == repo_full_name(pr) = fname
            IN filtered_prs(s, Filter(s.all_open_prs, InRepo))
      [] s.content_view.kind = "OrgOverview" -> <<>>

SelectedUrlUnfiltered(s) ==
    LET prs == current_pr_list([s EXCEPT !.search_query = <<>>])
    IN IF s.content_cursor < Len(prs) THEN Some(pr_url(prs[s.content_cursor + 1])) ELSE None

selected_pr_url(s) ==
    LET prs == current_pr_list(s)
    IN IF s.content_cursor < Len(prs) THEN Some(pr_url(prs[s.content_cursor + 1])) ELSE None

selected_nav_url(s) ==
    IF s.nav_cursor < Len(s.nav_nodes)
    THEN LET node == s.nav_nodes[s.nav_cursor + 1]
         IN CASE node.kind = "Repo" -> Some(<<node.owner \o <<"/">> \o node.name>>)
              [] node.kind = "Org" -> Some(<<node.org>>)
              [] OTHER -> None
    ELSE None

----------------------------------------------------------------------------
(* app/actions.rs *)

Act(type) == [type |-> type]
SearchInput(ch) == [type |-> "SearchInput", ch |-> ch]
OrgRepos(org, repos, rate_limit) ==
    [type |-> "DataLoaded", kind |-> "OrgRepos", org |-> org, repos |-> repos,
     rate_limit |-> rate_limit]
InboxPrs(prs, rate_limit) ==
    [type |-> "DataLoaded", kind |-> "InboxPrs", prs |-> prs, rate_limit |-> rate_limit]
AllOpenPrs(prs, rate_limit) ==
    [type |-> "DataLoaded", kind |-> "AllOpenPrs", prs |-> prs, rate_limit |-> rate_limit]
LoadError(msg) == [type |-> "LoadError", msg |-> msg]

RefreshAll == [type |-> "RefreshAll"]
FetchOrgRepos(org) == [type |-> "FetchOrgRepos", owner |-> org]
FetchUserRepos(user) == [type |-> "FetchUserRepos", owner |-> user]
FetchInbox == [type |-> "FetchInbox"]
FetchAllOpenPrs == [type |-> "FetchAllOpenPrs"]
OpenUrl(url) == [type |-> "OpenUrl", url |-> url]

----------------------------------------------------------------------------
(* app/update.rs: one operator per arm of update; each gives the new state *)
(* and the side effects returned.                                          *)

Ret(s, effects) == [state |-> s, effects |-> effects]

UpdateQuit(s) == Ret([s EXCEPT !.should_quit = TRUE], <<>>)

UpdateMoveUp(s) ==
    IF s.focused_pane = "Navigation"
    THEN Ret(IF s.nav_cursor > 0 THEN [s EXCEPT !.nav_cursor = @ - 1] ELSE s, <<>>)
    ELSE Ret(IF s.content_cursor > 0 THEN [s EXCEPT !.content_cursor = @ - 1] ELSE s, <<>>)

\* usize::saturating_sub(1)
SaturatingPred(n) == IF n = 0 THEN 0 ELSE n - 1

UpdateMoveDown(s) ==
    IF s.focused_pane = "Navigation"
    THEN Ret(IF s.nav_cursor + 1 < Len(s.nav_nodes)
             THEN [s EXCEPT !.nav_cursor = @ + 1] ELSE s, <<>>)
    ELSE LET max == SaturatingPred(Len(current_pr_list(s)))
         IN Ret(IF s.content_cursor < max
                THEN [s EXCEPT !.content_cursor = @ + 1] ELSE s, <<>>)

UpdateSelectOnlyExpanding(s) ==
    IF s.focused_pane = "Navigation"
    THEN IF s.nav_cursor < Len(s.nav_nodes)
         THEN LET node == s.nav_nodes[s.nav_cursor + 1]
              IN CASE node.kind = "Org" ->
                        Ret(rebuild_nav_tree(
                                [s EXCEPT !.nav_expanded = @ \cup {node.org},
                                          !.content_view = ViewOrgOverview(node.org),
                                          !.content_cursor = 0]), <<>>)
                   [] node.kind = "Repo" ->
                        Ret([s EXCEPT !.content_view = ViewRepoPrList(node.owner, node.name),
                                      !.content_cursor = 0], <<>>)
                   [] node.kind = "AllPrs" ->
                        Ret([s EXCEPT !.content_view = ViewAllOpenPrs,
                                      !.content_cursor = 0], <<>>)
                   [] node.kind = "MyInbox" ->
                        Ret([s EXCEPT !.content_view = ViewInbox,
                                      !.content_cursor = 0], <<>>)
         ELSE Ret(s, <<>>)
    ELSE LET url == selected_pr_url(s)
         IN IF url # None THEN Ret(s, <<OpenUrl(url[1])>>) ELSE Ret(s, <<>>)

UpdateSelectWithoutRebuild(s) ==
    IF s.focused_pane = "Navigation"
    THEN IF s.nav_cursor < Len(s.nav_nodes)
         THEN LET node == s.nav_nodes[s.nav_cursor + 1]
              IN CASE node.kind = "Org" ->
                        Ret([s EXCEPT !.nav_expanded =
                                          IF node.org \in @ THEN @ \ {node.org}
                                          ELSE @ \cup {node.org},
                                      !.content_view = ViewOrgOverview(node.org),
                                      !.content_cursor = 0], <<>>)
                   [] node.kind = "Repo" ->
                        Ret([s EXCEPT !.content_view = ViewRepoPrList(node.owner, node.name),
                                      !.content_cursor = 0], <<>>)
                   [] node.kind = "AllPrs" ->
                        Ret([s EXCEPT !.content_view = ViewAllOpenPrs,
                                      !.content_cursor = 0], <<>>)
                   [] node.kind = "MyInbox" ->
                        Ret([s EXCEPT !.content_view = ViewInbox,
                                      !.content_cursor = 0], <<>>)
         ELSE Ret(s, <<>>)
    ELSE LET url == selected_pr_url(s)
         IN IF url # None THEN Ret(s, <<OpenUrl(url[1])>>) ELSE Ret(s, <<>>)

UpdateSelect(s) ==
    IF s.focused_pane = "Navigation"
    THEN IF s.nav_cursor < Len(s.nav_nodes)
         THEN LET node == s.nav_nodes[s.nav_cursor + 1]
              IN CASE node.kind = "Org" ->
                        Ret(rebuild_nav_tree(
                                [s EXCEPT !.nav_expanded =
                                              IF node.org \in @ THEN @ \ {node.org}
                                              ELSE @ \cup {node.org},
                                          !.content_view = ViewOrgOverview(node.org),
                                          !.content_cursor = 0]), <<>>)
                   [] node.kind = "Repo" ->
                        Ret([s EXCEPT !.content_view = ViewRepoPrList(node.owner, node.name),
                                      !.content_cursor = 0], <<>>)
                   [] node.kind = "AllPrs" ->
                        Ret([s EXCEPT !.content_view = ViewAllOpenPrs,
                                      !.content_cursor = 0], <<>>)
                   [] node.kind = "MyInbox" ->
                        Ret([s EXCEPT !.content_view = ViewInbox,
                                      !.content_cursor = 0], <<>>)
         ELSE Ret(s, <<>>)
    ELSE LET url == selected_pr_url(s)
         IN IF url # None THEN Ret(s, <<OpenUrl(url[1])>>) ELSE Ret(s, <<>>)

UpdateBack(s) ==
    IF s.search_active
    THEN Ret([s EXCEPT !.search_active = FALSE, !.search_query = <<>>], <<>>)
    ELSE IF s.error_message # None
    THEN Ret([s EXCEPT !.error_message = None], <<>>)
    ELSE IF s.focused_pane = "Content"
    THEN Ret([s EXCEPT !.focused_pane = "Navigation"], <<>>)
    ELSE Ret(s, <<>>)

UpdateSwitchPane(s) ==
    Ret([s EXCEPT !.focused_pane = IF @ = "Navigation" THEN "Content" ELSE "Navigation"],
        <<>>)

UpdateRefreshKeepingError(s) == Ret([s EXCEPT !.loading = TRUE], <<RefreshAll>>)

UpdateRefresh(s) ==
    Ret([s EXCEPT !.loading = TRUE, !.error_message = None], <<RefreshAll>>)

UpdateOpenInBrowser(s) ==
    LET url == IF s.focused_pane = "Content" THEN selected_pr_url(s)
               ELSE selected_nav_url(s)
    IN IF url # None THEN Ret(s, <<OpenUrl(url[1])>>) ELSE Ret(s, <<>>)

UpdateToggleSearch(s) ==
    IF s.search_active
    THEN Ret([s EXCEPT !.search_active = FALSE, !.search_query = <<>>], <<>>)
    ELSE Ret([s EXCEPT !.search_active = TRUE, !.search_query = <<>>], <<>>)

SearchInputKeepingCursor(s, ch) ==
    IF s.search_active
    THEN Ret([s EXCEPT !.search_query = Append(@, ch)], <<>>)
    ELSE Ret(s, <<>>)

UpdateSearchInput(s, ch) ==
    IF s.search_active
    THEN Ret([s EXCEPT !.search_query = Append(@, ch), !.content_cursor = 0], <<>>)
    ELSE Ret(s, <<>>)

\* String::pop
Pop(text) == IF text = <<>> THEN text ELSE SubSeq(text, 1, Len(text) - 1)

UpdateSearchBackspace(s) ==
    IF s.search_active
    THEN Ret([s EXCEPT !.search_query = Pop(@), !.content_cursor = 0], <<>>)
    ELSE Ret(s, <<>>)

UpdateSearchClear(s) ==
    Ret([s EXCEPT !.search_query = <<>>, !.content_cursor = 0], <<>>)

\* The payload match of the DataLoaded arm.
ApplyPayloadKeepingOnEmpty(s, p) ==
    CASE p.kind = "OrgRepos" ->
            rebuild_nav_tree(
                [s EXCEPT !.loading_orgs = @ \ {p.org},
                          !.rate_limit = p.rate_limit,
                          !.orgs = [o \in DOMAIN @ \cup {p.org} |->
                                        IF o = p.org /\ (p.repos # <<>> \/ o \notin DOMAIN s.orgs)
                                        THEN [name |-> p.org, repos |-> p.repos]
                                        ELSE @[o]]])
      [] p.kind = "InboxPrs" ->
            [s EXCEPT !.rate_limit = p.rate_limit, !.inbox = p.prs]
      [] p.kind = "AllOpenPrs" ->
            [s EXCEPT !.rate_limit = p.rate_limit, !.all_open_prs = p.prs]

ApplyPayloadMerging(s, p) ==
    CASE p.kind = "OrgRepos" ->
            rebuild_nav_tree(
                [s EXCEPT !.loading_orgs = @ \ {p.org},
                          !.rate_limit = p.rate_limit,
                          !.orgs = [o \in DOMAIN @ \cup {p.org} |->
                                        IF o = p.org
                                        THEN [name |-> p.org,
                                              repos |-> (IF o \in DOMAIN s.orgs
                                                         THEN s.orgs[o].repos ELSE <<>>)
                                                        \o p.repos]
                                        ELSE @[o]]])
      [] p.kind = "InboxPrs" ->
            [s EXCEPT !.rate_limit = p.rate_limit, !.inbox = p.prs]
      [] p.kind = "AllOpenPrs" ->
            [s EXCEPT !.rate_limit = p.rate_limit, !.all_open_prs = p.prs]

ApplyPayload(s, p) ==
    CASE p.kind = "OrgRepos" ->
            rebuild_nav_tree(
                [s EXCEPT !.loading_orgs = @ \ {p.org},
                          !.rate_limit = p.rate_limit,
                          !.orgs = [o \in DOMAIN @ \cup {p.org} |->
                                        IF o = p.org
                                        THEN [name |-> p.org, repos |-> p.repos]
                                        ELSE @[o]]])
      [] p.kind = "InboxPrs" ->
            [s EXCEPT !.rate_limit = p.rate_limit, !.inbox = p.prs]
      [] p.kind = "AllOpenPrs" ->
            [s EXCEPT !.rate_limit = p.rate_limit, !.all_open_prs = p.prs]

LoadingCompleteAlways(s, t) == [s EXCEPT !.loading = FALSE, !.last_refresh = Some(t)]

\* The check that follows the payload match: all loading complete.
LoadingComplete(s, t) ==
    IF s.loading_orgs = {}
    THEN [s EXCEPT !.loading = FALSE, !.last_refresh = Some(t)]
    ELSE s

UpdateDataLoaded(s, p, t) == Ret(LoadingComplete(ApplyPayload(s, p), t), <<>>)

UpdateLoadErrorRetrying(s, msg) ==
    Ret([s EXCEPT !.loading = FALSE, !.loading_orgs = {}, !.error_message = Some(msg)],
        <<RefreshAll>>)

UpdateLoadErrorKeepingLoading(s, msg) ==
    Ret([s EXCEPT !.loading_orgs = {}, !.error_message = Some(msg)], <<>>)

UpdateLoadError(s, msg) ==
    Ret([s EXCEPT !.loading = FALSE, !.loading_orgs = {}, !.error_message = Some(msg)],
        <<>>)

UpdateDismissError(s) == Ret([s EXCEPT !.error_message = None], <<>>)

UpdateTick(s) == Ret(s, <<>>)

\* update(state, action), with t the wall clock the reducer reads.
update(s, a, t) ==
    CASE a.type = "Quit" -> UpdateQuit(s)
      [] a.type = "MoveUp" -> UpdateMoveUp(s)
      [] a.type = "MoveDown" -> UpdateMoveDown(s)
      [] a.type = "Select" -> UpdateSelect(s)
      [] a.type = "Back" -> UpdateBack(s)
      [] a.type = "SwitchPane" -> UpdateSwitchPane(s)
      [] a.type = "Refresh" -> UpdateRefresh(s)
      [] a.type = "OpenInBrowser" -> UpdateOpenInBrowser(s)
      [] a.type = "ToggleSearch" -> UpdateToggleSearch(s)
      [] a.type = "SearchInput" -> UpdateSearchInput(s, a.ch)
      [] a.type = "SearchBackspace" -> UpdateSearchBackspace(s)
      [] a.type = "SearchClear" -> UpdateSearchClear(s)
      [] a.type = "DataLoaded" -> UpdateDataLoaded(s, a, t)
      [] a.type = "LoadError" -> UpdateLoadError(s, a.msg)
      [] a.type = "DismissError" -> UpdateDismissError(s)
      [] a.type = "Tick" -> UpdateTick(s)

----------------------------------------------------------------------------
(* app/event_loop.rs: the include/exclude filter *)

RECURSIVE Split(_)
\* str::split('*')
Split(pattern) ==
    IF \A i \in 1..Len(pattern) : pattern[i] # "*" THEN <<pattern>>
    ELSE LET i == CHOOSE k \in 1..Len(pattern) :
                      pattern[k] = "*" /\ \A j \in 1..(k - 1) : pattern[j] # "*"
         IN <<SubSeq(pattern, 1, i - 1)>> \o Split(SubSeq(pattern, i + 1, Len(pattern)))

\* str::find: the offset of the first occurrence, or -1 for None.
Find(text, part) ==
    LET hits == {i \in 0..(Len(text) - Len(part)) :
                     SubSeq(text, i + 1, i + Len(part)) = part}
    IN IF hits = {} THEN -1 ELSE CHOOSE i \in hits : \A j \in hits : i <= j

glob_match(pattern, text) ==
    LET parts == Split(pattern)
        \* pos after the first i parts, or -1 once the loop has returned false
        Pos[i \in 0..Len(parts)] ==
            IF i = 0 THEN 0
            ELSE IF Pos[i - 1] = -1 THEN -1
            ELSE IF parts[i] = <<>> THEN Pos[i - 1]
            ELSE LET idx == Find(SubSeq(text, Pos[i - 1] + 1, Len(text)), parts[i])
                 IN IF idx = -1 THEN -1
                    ELSE IF i = 1 /\ idx # 0 THEN -1
                    ELSE Pos[i - 1] + idx + Len(parts[i])
        pos == Pos[Len(parts)]
    IN IF Len(parts) = 1 THEN pattern = text
       ELSE IF pos = -1 THEN FALSE
       ELSE IF pattern[Len(pattern)] # "*" THEN pos = Len(text)
       ELSE TRUE

FilterOnBareName(repos, include_patterns, exclude_patterns) ==
    LET Matches(patterns, repo) ==
            \E i \in 1..Len(patterns) : glob_match(patterns[i], repo.name)
        Keep(repo) ==
            /\ include_patterns # <<>> => Matches(include_patterns, repo)
            /\ exclude_patterns # <<>> => ~Matches(exclude_patterns, repo)
    IN Filter(repos, Keep)

filter_repos(repos, include_patterns, exclude_patterns) ==
    LET Matches(patterns, repo) ==
            \E i \in 1..Len(patterns) :
                glob_match(patterns[i], full_name(repo)) \/ glob_match(patterns[i], repo.name)
        Keep(repo) ==
            /\ include_patterns # <<>> => Matches(include_patterns, repo)
            /\ exclude_patterns # <<>> => ~Matches(exclude_patterns, repo)
    IN Filter(repos, Keep)

----------------------------------------------------------------------------
(* cache/store.rs.  The directory is a function from the names of the      *)
(* files in it to their contents.                                          *)

Entry(timestamp, data) == [parses |-> TRUE, timestamp |-> timestamp, data |-> data]

\* A file serde_json does not parse as a CacheEntry.
Garbage == [parses |-> FALSE, timestamp |-> 0, data |-> <<>>]

PathKeepingSeparators(key) == key \o <<".json">>

path_for_key(key) ==
    [i \in 1..Len(key) |-> IF key[i] \in {"/", "\\"} THEN "_" ELSE key[i]] \o <<".json">>

\* The clock counts TicksPerSec ticks to the second (chrono's instants are
\* finer than a second).
TicksPerSec == 2

\* TimeDelta::num_seconds: the whole seconds of a duration, rounded toward zero.
num_seconds(d) == IF d >= 0 THEN d \div TicksPerSec ELSE 0 - ((0 - d) \div TicksPerSec)

GetExpiringAtTtl(dir, ttl_secs, key, t) ==
    LET path == path_for_key(key)
    IN IF path \notin DOMAIN dir THEN None
       ELSE IF ~dir[path].parses THEN None
       ELSE LET age == num_seconds(t - dir[path].timestamp)
            IN IF age < 0 \/ age >= ttl_secs THEN None ELSE Some(dir[path].data)

get(dir, ttl_secs, key, t) ==
    LET path == path_for_key(key)
    IN IF path \notin DOMAIN dir THEN None
       ELSE IF ~dir[path].parses THEN None
       ELSE LET age == num_seconds(t - dir[path].timestamp)
            IN IF age < 0 \/ age > ttl_secs THEN None ELSE Some(dir[path].data)

\* The directory after a set that succeeds.
set(dir, key, data, t) ==
    LET path == path_for_key(key)
    IN [f \in DOMAIN dir \cup {path} |-> IF f = path THEN Entry(t, data) ELSE dir[f]]

invalidate(dir, key) ==
    [f \in DOMAIN dir \ {path_for_key(key)} |-> dir[f]]

\* path.extension() == Some("json"): a name that is nothing but ".json" has
\* no extension.
IsJson(path) == Len(path) > 1 /\ path[Len(path)] = ".json"

invalidate_all(dir) == [f \in {g \in DOMAIN dir : ~IsJson(g)} |-> dir[f]]

----------------------------------------------------------------------------
(* The startup snapshot (util/config.rs, main.rs) and the data source      *)

OrgA == <<"a">>
UserB == <<"b">>
Viewer == <<"z">>

\* cache.ttl_secs of the snapshots
TtlSecs == 1

\* The clock when the program starts: late enough for an entry to have expired.
StartTime == (TtlSecs + 1) * TicksPerSec

Snapshot(orgs, users, with_cache) ==
    [orgs |-> orgs, users |-> users,
     include_repos |-> <<>>, exclude_repos |-> << <<"z", "*">> >>,
     viewer_login |-> Viewer, cache_store |-> with_cache, ttl_secs |-> TtlSecs]

\* main.rs refuses to start with neither orgs nor users.
Configs ==
    {Snapshot(<<OrgA>>, <<>>, TRUE), Snapshot(<<>>, <<UserB>>, FALSE)}

all_owners(cfg) == cfg.orgs \o cfg.users

RepoR(owner) == Repo(owner, <<"r">>, 1, FALSE)
RepoZ(owner) == Repo(owner, <<"z">>, 2, FALSE)

Pr1 == PullRequest(OrgA, <<"r">>, 1, <<"A", "b">>, <<"z">>, 1)
Pr2 == PullRequest(OrgA, <<"z">>, 2, <<"b">>, <<"a">>, 2)

RateLimits == {[remaining |-> 1, limit |-> 2]}
Errors == {"timeout"}

IsRepoFetch(effect) == effect.type \in {"FetchOrgRepos", "FetchUserRepos"}

\* What a data-source call for the effect can return as Ok((data, rate_limit)).
SourceData(effect) ==
    IF IsRepoFetch(effect)
    THEN {<<RepoZ(effect.owner)>>, <<RepoZ(effect.owner), RepoR(effect.owner)>>}
    ELSE {<<Pr2, Pr1>>}

cache_key(effect, cfg) ==
    CASE effect.type = "FetchOrgRepos" -> <<"org_repos_">> \o effect.owner
      [] effect.type = "FetchUserRepos" -> <<"user_repos_">> \o effect.owner
      [] effect.type = "FetchInbox" -> <<"inbox_">> \o cfg.viewer_login
      [] effect.type = "FetchAllOpenPrs" -> <<"all_open_prs">>

\* The DataLoaded action a fetch task sends for data it got from the cache or
\* from the data source.
Loaded(effect, cfg, data, rate_limit) ==
    CASE IsRepoFetch(effect) ->
            OrgRepos(effect.owner,
                     filter_repos(data, cfg.include_repos, cfg.exclude_repos), rate_limit)
      [] effect.type = "FetchInbox" -> InboxPrs(data, rate_limit)
      [] effect.type = "FetchAllOpenPrs" -> AllOpenPrs(data, rate_limit)

\* The LoadError action a fetch task sends when the data source fails with e.
Failed(effect, e) ==
    LoadError([what |-> effect.type,
               who |-> IF IsRepoFetch(effect) THEN effect.owner ELSE <<>>,
               err |-> e])

----------------------------------------------------------------------------
(* app/event_loop.rs: spawn_side_effect *)

\* An action on the channel; final tells the result a fetch task sends from
\* the placeholder sent at dispatch.
Item(action, final) == [action |-> action, final |-> final]

\* A spawned fetch task: at sem.acquire ("waiting"), at the data-source call
\* ("calling"), or past cache.set with the result in hand ("stored").
Task(effect) == [effect |-> effect, pc |-> "waiting", res |-> None]

Spawned(sends, new_tasks, urls) == [sends |-> sends, tasks |-> new_tasks, urls |-> urls]

RefreshAllWithoutInbox(cfg) ==
    [i \in 1..Len(cfg.orgs) |-> FetchOrgRepos(cfg.orgs[i])]
        \o [i \in 1..Len(cfg.users) |-> FetchUserRepos(cfg.users[i])]
        \o <<FetchAllOpenPrs>>

\* The RefreshAll arm: the effects it passes to spawn_side_effect, in order.
RefreshAllEffects(cfg) ==
    [i \in 1..Len(cfg.orgs) |-> FetchOrgRepos(cfg.orgs[i])]
        \o [i \in 1..Len(cfg.users) |-> FetchUserRepos(cfg.users[i])]
        \o <<FetchInbox, FetchAllOpenPrs>>

RECURSIVE spawn_side_effect(_, _)
\* What one call starts: the actions it sends itself, the fetch tasks it
\* spawns (a bag) and the number of URLs it hands to blocking tasks.
spawn_side_effect(effect, cfg) ==
    CASE effect.type = "RefreshAll" ->
            LET subs == RefreshAllEffects(cfg)
                Sub[i \in 0..Len(subs)] ==
                    IF i = 0 THEN Spawned(<<>>, EmptyBag, 0)
                    ELSE LET one == spawn_side_effect(subs[i], cfg)
                         IN Spawned(Sub[i - 1].sends \o one.sends,
                                    Sub[i - 1].tasks (+) one.tasks,
                                    Sub[i - 1].urls + one.urls)
            IN Sub[Len(subs)]
      [] IsRepoFetch(effect) ->
            Spawned(<<Item(OrgRepos(effect.owner, <<>>, RateLimitDefault), FALSE)>>,
                    SetToBag({Task(effect)}), 0)
      [] effect.type \in {"FetchInbox", "FetchAllOpenPrs"} ->
            Spawned(<<>>, SetToBag({Task(effect)}), 0)
      [] effect.type = "OpenUrl" -> Spawned(<<>>, EmptyBag, 1)

\* for effect in effects { spawn_side_effect(effect, ...) }
SpawnEach(effects, cfg) ==
    LET All[i \in 0..Len(effects)] ==
            IF i = 0 THEN Spawned(<<>>, EmptyBag, 0)
            ELSE LET one == spawn_side_effect(effects[i], cfg)
                 IN Spawned(All[i - 1].sends \o one.sends,
                            All[i - 1].tasks (+) one.tasks,
                            All[i - 1].urls + one.urls)
    IN All[Len(effects)]

\* Semaphore::new(4)
Permits == 4

----------------------------------------------------------------------------
(* app/event_loop.rs: map_event_to_action *)

Key(code) == [press |-> TRUE, code |-> code, c |-> "", ctrl |-> FALSE]
Char(c) == [press |-> TRUE, code |-> "Char", c |-> c, ctrl |-> FALSE]
Ctrl(c) == [press |-> TRUE, code |-> "Char", c |-> c, ctrl |-> TRUE]
Release(c) == [press |-> FALSE, code |-> "Char", c |-> c, ctrl |-> FALSE]

MapIgnoringError(event, s) ==
    IF ~event.press THEN None
    ELSE IF s.search_active
    THEN CASE event.code = "Esc" -> Some(Act("ToggleSearch"))
           [] event.code = "Backspace" -> Some(Act("SearchBackspace"))
           [] event.code = "Char" -> Some(SearchInput(event.c))
           [] event.code = "Enter" -> Some(Act("ToggleSearch"))
           [] OTHER -> None
    ELSE CASE event.code = "Char" /\ event.c = "q" -> Some(Act("Quit"))
           [] event.code = "Char" /\ event.c = "c" /\ event.ctrl -> Some(Act("Quit"))
           [] event.code = "Char" /\ event.c = "j" -> Some(Act("MoveDown"))
           [] event.code = "Down" -> Some(Act("MoveDown"))
           [] event.code = "Char" /\ event.c = "k" -> Some(Act("MoveUp"))
           [] event.code = "Up" -> Some(Act("MoveUp"))
           [] event.code = "Enter" -> Some(Act("Select"))
           [] event.code = "Char" /\ event.c = "l" -> Some(Act("Select"))
           [] event.code = "Right" -> Some(Act("Select"))
           [] event.code = "Esc" -> Some(Act("Back"))
           [] event.code = "Char" /\ event.c = "h" -> Some(Act("Back"))
           [] event.code = "Left" -> Some(Act("Back"))
           [] event.code = "Tab" -> Some(Act("SwitchPane"))
           [] event.code = "BackTab" -> Some(Act("SwitchPane"))
           [] event.code = "Char" /\ event.c = "r" -> Some(Act("Refresh"))
           [] event.code = "Char" /\ event.c = "o" -> Some(Act("OpenInBrowser"))
           [] event.code = "Char" /\ event.c = "/" -> Some(Act("ToggleSearch"))
           [] OTHER -> None

map_event_to_action(event, s) ==
    IF ~event.press THEN None
    ELSE IF s.error_message # None
    THEN (IF event.code = "Esc" THEN Some(Act("DismissError")) ELSE None)
    ELSE IF s.search_active
    THEN CASE event.code = "Esc" -> Some(Act("ToggleSearch"))
           [] event.code = "Backspace" -> Some(Act("SearchBackspace"))
           [] event.code = "Char" -> Some(SearchInput(event.c))
           [] event.code = "Enter" -> Some(Act("ToggleSearch"))
           [] OTHER -> None
    ELSE CASE event.code = "Char" /\ event.c = "q" -> Some(Act("Quit"))
           [] event.code = "Char" /\ event.c = "c" /\ event.ctrl -> Some(Act("Quit"))
           [] event.code = "Char" /\ event.c = "j" -> Some(Act("MoveDown"))
           [] event.code = "Down" -> Some(Act("MoveDown"))
           [] event.code = "Char" /\ event.c = "k" -> Some(Act("MoveUp"))
           [] event.code = "Up" -> Some(Act("MoveUp"))
           [] event.code = "Enter" -> Some(Act("Select"))
           [] event.code = "Char" /\ event.c = "l" -> Some(Act("Select"))
           [] event.code = "Right" -> Some(Act("Select"))
           [] event.code = "Esc" -> Some(Act("Back"))
           [] event.code = "Char" /\ event.c = "h" -> Some(Act("Back"))
           [] event.code = "Left" -> Some(Act("Back"))
           [] event.code = "Tab" -> Some(Act("SwitchPane"))
           [] event.code = "BackTab" -> Some(Act("SwitchPane"))
           [] event.code = "Char" /\ event.c = "r" -> Some(Act("Refresh"))
           [] event.code = "Char" /\ event.c = "o" -> Some(Act("OpenInBrowser"))
           [] event.code = "Char" /\ event.c = "/" -> Some(Act("ToggleSearch"))
           [] OTHER -> None

----------------------------------------------------------------------------
(* The whole system: run_loop, the fetch tasks, the clock *)

\* The terminal events offered to the running loop.
TerminalEvents ==
    {Char("q"), Key("Esc"), Key("Enter"), Key("Tab"), Release("q")}

\* What the cache directory can hold at startup.
\* left by earlier runs: a live entry, an expired one and an unparsable file.
StartDir ==
    LET live == path_for_key(<<"all_open_prs">>)
        expired == path_for_key(<<"inbox_">> \o Viewer)
        garbage == path_for_key(<<"org_repos_">> \o OrgA)
    IN [f \in {live, expired, garbage} |->
            CASE f = live -> Entry(StartTime, <<Pr1>>)
              [] f = expired -> Entry(0, <<Pr1>>)
              [] f = garbage -> Garbage]

\* History of the run: the counters the bounds are stated on, whether the
\* last Refresh was applied with an error message shown and, under
\* SpecReducer, the last action applied and the state it was applied to.
Hist0 ==
    [ev |-> None, pre |-> None, effects |-> <<>>, steps |-> 0, refreshes |-> 0,
     faults |-> 0, over_error |-> FALSE, key |-> None]

Init ==
    /\ config \in Configs
    /\ state = new(all_owners(config))
    /\ loop = "start"
    /\ queue = <<>>
    /\ tasks = EmptyBag
    /\ permits = Permits
    /\ cache = (IF config.cache_store THEN StartDir ELSE <<>>)
    /\ now = StartTime
    /\ opened = 0
    /\ hist = Hist0

SendAhead(q, item) == <<item>> \o q

\* tx.send
Send(q, item) == Append(q, item)

\* The channel is unbounded; the model follows it up to MaxQueue actions.
Room == Len(queue) < MaxQueue

\* Tasks run until run_loop has returned: main then returns and the runtime
\* is dropped with the tasks that have not finished. The loop has no await
\* between the reducer setting should_quit and the break, so no step of a
\* task is placed between the two.
Alive == loop # "exited" /\ ~state.should_quit

Finish(t) == tasks (-) SetToBag({t})
Move(t, pc, res) == (tasks (-) SetToBag({t})) (+) SetToBag({[t EXCEPT !.pc = pc, !.res = res]})

\* let effects = update(&mut state, action); for effect in effects { spawn }
Reduce(action, q) ==
    LET r == update(state, action, now)
        refresh == IF action.type = "Refresh" THEN 1 ELSE 0
        sp == SpawnEach(r.effects, config)
    IN /\ action.type = "Refresh" =>
              /\ hist.refreshes < MaxRefresh
              /\ BagCardinality(tasks (+) sp.tasks) <= MaxTasks
       /\ action.type = "SearchInput" => Len(state.search_query) < MaxQuery
       /\ opened + sp.urls <= MaxOpened
       /\ state' = r.state
       /\ Len(q \o sp.sends) <= MaxQueue
       /\ queue' = q \o sp.sends
       /\ tasks' = tasks (+) sp.tasks
       /\ opened' = opened + sp.urls
       /\ hist' = [hist EXCEPT !.refreshes = @ + refresh,
                                !.over_error = IF refresh = 1
                                               THEN state.error_message # None ELSE @]

\* run_loop before the loop: the initial RefreshAll.
InitialFetch ==
    /\ loop = "start"
    /\ LET sp == SpawnEach(<<RefreshAll>>, config)
       IN /\ queue' = queue \o sp.sends
          /\ tasks' = tasks (+) sp.tasks
          /\ opened' = opened + sp.urls
    /\ loop' = "running"
    /\ UNCHANGED <<config, state, permits, cache, now, hist>>

RunningAfterQuit == loop = "running"

\* The loop is at select!: it has passed the should_quit check.
Running == loop = "running" /\ ~state.should_quit

TerminalEventBehindPermit ==
    /\ Running
    /\ permits > 0
    /\ \E event \in TerminalEvents :
          LET action == map_event_to_action(event, state)
          IN IF action = None
             THEN UNCHANGED <<state, queue, tasks, opened, hist>>
             ELSE Reduce(action[1], queue)
    /\ UNCHANGED <<config, loop, permits, cache, now>>

\* select!: event_stream.next()
TerminalEvent ==
    /\ Running
    /\ \E event \in TerminalEvents :
          LET action == map_event_to_action(event, state)
          IN IF action = None
             THEN UNCHANGED <<state, queue, tasks, opened, hist>>
             ELSE Reduce(action[1], queue)
    /\ UNCHANGED <<config, loop, permits, cache, now>>

ReceiveLast ==
    /\ Running
    /\ queue # <<>>
    /\ Reduce(queue[Len(queue)].action, SubSeq(queue, 1, Len(queue) - 1))
    /\ UNCHANGED <<config, loop, permits, cache, now>>

\* select!: action_rx.recv()
Receive ==
    /\ Running
    /\ queue # <<>>
    /\ Reduce(Head(queue).action, Tail(queue))
    /\ UNCHANGED <<config, loop, permits, cache, now>>

RefreshTimerWhileLoading ==
    /\ Running
    /\ Reduce(Act("Refresh"), queue)
    /\ UNCHANGED <<config, loop, permits, cache, now>>

\* select!: refresh_timer.tick()
RefreshTimer ==
    /\ Running
    /\ IF ~state.loading
       THEN Reduce(Act("Refresh"), queue)
       ELSE UNCHANGED <<state, queue, tasks, opened, hist>>
    /\ UNCHANGED <<config, loop, permits, cache, now>>

\* if state.should_quit { break }: run_loop returns and drops action_rx.
LoopExit ==
    /\ loop = "running"
    /\ state.should_quit
    /\ loop' = "exited"
    /\ UNCHANGED <<config, state, queue, tasks, permits, cache, now, opened, hist>>

LookupSkipped(t) == None

\* cache.get(&cache_key) when there is a cache store.
Lookup(t) ==
    IF config.cache_store
    THEN get(cache, config.ttl_secs, cache_key(t.effect, config), now)
    ELSE None

\* sem.acquire, then the cache has the key: send what it holds and return
\* (the permit is dropped with the task).
CacheHit(t) ==
    /\ t.pc = "waiting"
    /\ permits > 0
    /\ Lookup(t) # None
    /\ Room
    /\ queue' = Send(queue, Item(Loaded(t.effect, config, Lookup(t)[1], RateLimitDefault),
                                 TRUE))
    /\ tasks' = Finish(t)
    /\ UNCHANGED <<config, state, loop, permits, cache, now, opened, hist>>

CacheMissWithoutPermit(t) ==
    /\ t.pc = "waiting"
    /\ Lookup(t) = None
    /\ permits' = permits - 1
    /\ tasks' = Move(t, "calling", None)
    /\ UNCHANGED <<config, state, loop, queue, cache, now, opened, hist>>

CacheMissSurfacingCorruption(t) ==
    /\ t.pc = "waiting"
    /\ permits > 0
    /\ Lookup(t) = None
    /\ permits' = permits - 1
    /\ tasks' = Move(t, "calling", None)
    /\ queue' = IF config.cache_store /\ Room
                      /\ path_for_key(cache_key(t.effect, config)) \in DOMAIN cache
                THEN Send(queue, Item(Failed(t.effect, "parse"), TRUE))
                ELSE queue
    /\ UNCHANGED <<config, state, loop, cache, now, opened, hist>>

\* sem.acquire, then no cache or no live entry: call the data source.
CacheMiss(t) ==
    /\ t.pc = "waiting"
    /\ permits > 0
    /\ Lookup(t) = None
    /\ permits' = permits - 1
    /\ tasks' = Move(t, "calling", None)
    /\ UNCHANGED <<config, state, loop, queue, cache, now, opened, hist>>

FetchOkCachingFiltered(t) ==
    /\ t.pc = "calling"
    /\ \E data \in SourceData(t.effect), rate_limit \in RateLimits :
          /\ tasks' = Move(t, "stored", Some([data |-> data, rate_limit |-> rate_limit]))
          /\ cache' = IF config.cache_store
                      THEN set(cache, cache_key(t.effect, config),
                               IF IsRepoFetch(t.effect)
                               THEN filter_repos(data, config.include_repos,
                                                 config.exclude_repos)
                               ELSE data, now)
                      ELSE cache
    /\ UNCHANGED <<config, state, loop, queue, permits, now, opened, hist>>

\* client.fetch_*(..).await returns Ok((data, rate_limit)); cache.set follows
\* and succeeds, or fails, which is only logged.
FetchOk(t) ==
    /\ t.pc = "calling"
    /\ \E data \in SourceData(t.effect), rate_limit \in RateLimits :
          /\ tasks' = Move(t, "stored", Some([data |-> data, rate_limit |-> rate_limit]))
          /\ \/ /\ config.cache_store
                /\ cache' = set(cache, cache_key(t.effect, config), data, now)
                /\ hist' = hist
             \/ /\ config.cache_store => hist.faults < MaxFaults
                /\ cache' = cache
                /\ hist' = [hist EXCEPT !.faults = @ + (IF config.cache_store THEN 1 ELSE 0)]
    /\ UNCHANGED <<config, state, loop, queue, permits, now, opened>>

FetchErrKeepingPermit(t) ==
    /\ t.pc = "calling"
    /\ hist.faults < MaxFaults
    /\ Room
    /\ \E e \in Errors : queue' = Send(queue, Item(Failed(t.effect, e), TRUE))
    /\ tasks' = Finish(t)
    /\ hist' = [hist EXCEPT !.faults = @ + 1]
    /\ UNCHANGED <<config, state, loop, permits, cache, now, opened>>

\* client.fetch_*(..).await returns Err(e): send LoadError and finish.
FetchErr(t) ==
    /\ t.pc = "calling"
    /\ hist.faults < MaxFaults
    /\ Room
    /\ \E e \in Errors : queue' = Send(queue, Item(Failed(t.effect, e), TRUE))
    /\ tasks' = Finish(t)
    /\ permits' = permits + 1
    /\ hist' = [hist EXCEPT !.faults = @ + 1]
    /\ UNCHANGED <<config, state, loop, cache, now, opened>>

DeliverKeepingPermit(t) ==
    /\ t.pc = "stored"
    /\ Room
    /\ queue' = Send(queue, Item(Loaded(t.effect, config, t.res[1].data,
                                        t.res[1].rate_limit), TRUE))
    /\ tasks' = Finish(t)
    /\ UNCHANGED <<config, state, loop, permits, cache, now, opened, hist>>

\* Send the result and finish; the permit is dropped with the task.
Deliver(t) ==
    /\ t.pc = "stored"
    /\ Room
    /\ queue' = Send(queue, Item(Loaded(t.effect, config, t.res[1].data,
                                        t.res[1].rate_limit), TRUE))
    /\ tasks' = Finish(t)
    /\ permits' = permits + 1
    /\ UNCHANGED <<config, state, loop, cache, now, opened, hist>>

\* The queries a task has in flight during its call of the data source:
\* fetch_inbox joins two search_prs futures, every other fetch awaits one
\* query at a time.
Queries(effect) == IF effect.type = "FetchInbox" THEN 2 ELSE 1

\* The tasks inside client.fetch_*(..).await.
Calling == [t \in {x \in BagToSet(tasks) : x.pc = "calling"} |-> tasks[t]]

QueriesInFlight ==
    LET twice == [t \in {x \in DOMAIN Calling : Queries(x.effect) = 2} |-> Calling[t]]
    IN BagCardinality(Calling) + BagCardinality(twice)

TaskCacheHit == Alive /\ \E t \in BagToSet(tasks) : CacheHit(t)
TaskCacheMiss == Alive /\ \E t \in BagToSet(tasks) : CacheMiss(t)
TaskFetchOk == Alive /\ \E t \in BagToSet(tasks) : FetchOk(t)
TaskFetchErr == Alive /\ \E t \in BagToSet(tasks) : FetchErr(t)
TaskDeliver == Alive /\ \E t \in BagToSet(tasks) : Deliver(t)

Next ==
    \/ InitialFetch
    \/ TerminalEvent
    \/ Receive
    \/ RefreshTimer
    \/ LoopExit
    \/ TaskCacheHit
    \/ TaskCacheMiss
    \/ TaskFetchOk
    \/ TaskFetchErr
    \/ TaskDeliver

Spec == Init /\ [][Next]_vars

----------------------------------------------------------------------------
(* The whole program under fair scheduling: the tokio runtime polls every  *)
(* task that can make progress, select! takes a ready branch, and the data *)
(* source answers every call                                               *)

\* Four refreshes after the initial fetch, every placeholder applied, the
\* fetches of the org's repos ended in errors the user has dismissed: five
\* inbox fetches and one fetch of all open PRs have not started yet, six
\* tasks for four permits.
FairTasks ==
    SetToBag({Task(FetchInbox), Task(FetchAllOpenPrs)})
       (+) SetToBag({Task(FetchInbox)})
       (+) SetToBag({Task(FetchInbox)})
       (+) SetToBag({Task(FetchInbox)})
       (+) SetToBag({Task(FetchInbox)})

InitFair ==
    /\ config = Snapshot(<<OrgA>>, <<>>, TRUE)
    /\ state = update(new(all_owners(config)), OrgRepos(OrgA, <<>>, RateLimitDefault),
                      StartTime).state
    /\ loop = "running"
    /\ queue = <<>>
    /\ tasks = FairTasks
    /\ permits = Permits
    /\ cache = StartDir
    /\ now = StartTime
    /\ opened = 0
    /\ hist = Hist0

\* What a step of Receive does to the queue: the head is taken.
Received ==
    /\ Running
    /\ queue # <<>>
    /\ queue' = Tail(queue)
    /\ state' = update(state, Head(queue).action, now).state
    /\ UNCHANGED <<config, loop, tasks, permits, cache, now, opened, hist>>

Fairness ==
    /\ WF_vars(Received)
    /\ WF_vars(TaskCacheHit)
    /\ WF_vars(TaskCacheMiss)
    /\ WF_vars(TaskFetchOk \/ TaskFetchErr)
    /\ WF_vars(TaskDeliver)

\* select!: event_stream.next() with the one key that ends the program.
QuitKey ==
    /\ Running
    /\ LET action == map_event_to_action(Char("q"), state)
       IN IF action = None
          THEN UNCHANGED <<state, queue, tasks, opened, hist>>
          ELSE Reduce(action[1], queue)
    /\ UNCHANGED <<config, loop, permits, cache, now>>

NextFair ==
    \/ QuitKey
    \/ Receive
    \/ LoopExit
    \/ TaskCacheHit
    \/ TaskCacheMiss
    \/ TaskFetchOk
    \/ TaskFetchErr
    \/ TaskDeliver

SpecFair == InitFair /\ [][NextFair]_vars /\ Fairness

----------------------------------------------------------------------------
(* Two fetch tasks for one cache key on the multi-thread runtime, with     *)
(* std::fs::write taken as the two steps it is: File::create, which        *)
(* truncates the file, and write_all, which writes from offset 0 through   *)
(* the task's own handle                                                   *)

\* A token of a serialized file: the timestamp, one element of the data, or
\* the closing "}".
Token(tok, v) == [tok |-> tok, v |-> v]

\* serde_json::to_string(&entry) as a sequence of tokens.
to_string(entry) ==
    <<Token("timestamp", entry.timestamp)>>
       \o [i \in 1..Len(entry.data) |-> Token("element", entry.data[i])]
       \o <<Token("}", None)>>

\* serde_json::from_str: what the tokens parse as. Tokens after the closing
\* "}" are trailing characters, and the file is not a CacheEntry; the tokens
\* of such a file are kept as they are on disk.
from_str(bytes) ==
    IF /\ Len(bytes) >= 2
       /\ bytes[1].tok = "timestamp"
       /\ bytes[Len(bytes)].tok = "}"
       /\ \A i \in 2..(Len(bytes) - 1) : bytes[i].tok = "element"
    THEN Entry(bytes[1].v, [i \in 1..(Len(bytes) - 2) |-> bytes[i + 1].v])
    ELSE [parses |-> FALSE, timestamp |-> 0, data |-> bytes]

\* The tokens of a file.
Bytes(content) == IF content.parses THEN to_string(content) ELSE content.data

\* write_all through a handle at offset 0: the tokens written replace the
\* first tokens of the file, what lies behind them stays.
WriteAll(content, bytes) ==
    from_str(bytes \o SubSeq(Bytes(content), Len(bytes) + 1, Len(Bytes(content))))

\* "written": the data of the write_all that happened last.
HistRace0 ==
    [f \in DOMAIN Hist0 \cup {"written"} |-> IF f = "written" THEN None ELSE Hist0[f]]

\* A refresh applied while the fetch of the earlier one has not started:
\* two tasks for the org's repos, no file in the cache directory.
InitRace ==
    /\ config = Snapshot(<<OrgA>>, <<>>, TRUE)
    /\ state = update(new(all_owners(config)), OrgRepos(OrgA, <<>>, RateLimitDefault),
                      StartTime).state
    /\ loop = "running"
    /\ queue = <<>>
    /\ tasks = SetToBag({Task(FetchOrgRepos(OrgA))}) (+) SetToBag({Task(FetchOrgRepos(OrgA))})
    /\ permits = Permits
    /\ cache = <<>>
    /\ now = StartTime
    /\ opened = 0
    /\ hist = HistRace0

\* client.fetch_*(..).await returns Ok((data, rate_limit)).
Answer(t) ==
    /\ t.pc = "calling"
    /\ \E data \in SourceData(t.effect), rate_limit \in RateLimits :
          tasks' = Move(t, "answered", Some([data |-> data, rate_limit |-> rate_limit]))
    /\ UNCHANGED <<config, state, loop, queue, permits, cache, now, opened, hist>>

\* cache.set: File::create(path) inside std::fs::write.
Create(t) ==
    /\ t.pc = "answered"
    /\ LET path == path_for_key(cache_key(t.effect, config))
       IN cache' = [f \in DOMAIN cache \cup {path} |->
                       IF f = path THEN from_str(<<>>) ELSE cache[f]]
    /\ tasks' = Move(t, "created", t.res)
    /\ UNCHANGED <<config, state, loop, queue, permits, now, opened, hist>>

\* cache.set: write_all(content) inside std::fs::write.
Write(t) ==
    /\ t.pc = "created"
    /\ LET path == path_for_key(cache_key(t.effect, config))
       IN cache' = [cache EXCEPT
                       ![path] = WriteAll(@, to_string(Entry(now, t.res[1].data)))]
    /\ tasks' = Move(t, "stored", t.res)
    /\ hist' = [hist EXCEPT !.written = Some(t.res[1].data)]
    /\ UNCHANGED <<config, state, loop, queue, permits, now, opened>>

TaskAnswer == Alive /\ \E t \in BagToSet(tasks) : Answer(t)
TaskCreate == Alive /\ \E t \in BagToSet(tasks) : Create(t)
TaskWrite == Alive /\ \E t \in BagToSet(tasks) : Write(t)

NextRace ==
    \/ Receive
    \/ TaskCacheHit
    \/ TaskCacheMiss
    \/ TaskAnswer
    \/ TaskFetchErr
    \/ TaskCreate
    \/ TaskWrite
    \/ TaskDeliver

SpecRace == InitRace /\ [][NextRace]_vars

----------------------------------------------------------------------------
(* The whole program started with a cache store on any of the directories  *)
(* earlier runs can have left                                              *)

\* StartDir, and StartDir with no file for the org's repos.
LookupDirs ==
    {StartDir,
     [f \in DOMAIN StartDir \ {path_for_key(<<"org_repos_">> \o OrgA)} |-> StartDir[f]]}

InitLookup ==
    /\ config = Snapshot(<<OrgA>>, <<>>, TRUE)
    /\ state = new(all_owners(config))
    /\ loop = "start"
    /\ queue = <<>>
    /\ tasks = EmptyBag
    /\ permits = Permits
    /\ cache \in LookupDirs
    /\ now = StartTime
    /\ opened = 0
    /\ hist = Hist0

SpecLookup == InitLookup /\ [][Next]_vars

----------------------------------------------------------------------------
(* The reducer alone: update applied to any sequence of actions *)

ReducerConfig == Snapshot(<<OrgA>>, <<UserB>>, FALSE)

\* The actions the terminal, the timer and the fetch tasks can produce.
ReducerActions ==
    {Act(type) : type \in {"Quit", "MoveUp", "MoveDown", "Select", "Back", "SwitchPane",
                           "Refresh", "OpenInBrowser", "ToggleSearch", "SearchBackspace",
                           "SearchClear", "DismissError", "Tick"}}
    \cup {SearchInput(ch) : ch \in {"A", "r"}}
    \cup {OrgRepos(OrgA, <<>>, RateLimitDefault)}
    \cup {OrgRepos(OrgA, <<RepoZ(OrgA), RepoR(OrgA)>>, rl) : rl \in RateLimits}
    \cup {OrgRepos(UserB, <<RepoR(UserB)>>, rl) : rl \in RateLimits}
    \cup {InboxPrs(prs, rl) : prs \in {<<Pr1>>, <<Pr2, Pr1>>}, rl \in RateLimits}
    \cup {AllOpenPrs(prs, rl) : prs \in {<<Pr1>>, <<Pr2, Pr1>>}, rl \in RateLimits}
    \cup {Failed(effect, e) : effect \in {FetchInbox, FetchAllOpenPrs}, e \in Errors}

\* The key events pressed in a run of the reducer.
PressedKeys ==
    {Char("q"), Ctrl("c"), Char("r"), Char("/"), Key("Esc"), Key("Enter"),
     Key("Backspace"), Release("q")}

InitReducer ==
    /\ config = ReducerConfig
    /\ state = new(all_owners(config))
    /\ loop = "reducer"
    /\ queue = <<>>
    /\ tasks = EmptyBag
    /\ permits = Permits
    /\ cache = <<>>
    /\ now = StartTime
    /\ opened = 0
    /\ hist = Hist0

\* update(&mut state, action)
Apply ==
    /\ hist.steps < MaxSteps
    /\ \E action \in ReducerActions :
          LET r == update(state, action, now)
          IN /\ action.type = "SearchInput" => Len(state.search_query) < MaxQuery
             /\ state' = r.state
             /\ hist' = [hist EXCEPT !.ev = Some(action), !.pre = Some(state),
                                     !.effects = r.effects, !.steps = @ + 1,
                                     !.key = None]
    /\ UNCHANGED <<config, loop, queue, tasks, permits, cache, now, opened>>

\* A terminal event: map_event_to_action, then update when it gives an action.
Press ==
    /\ hist.steps < MaxSteps
    /\ \E event \in PressedKeys :
          LET action == map_event_to_action(event, state)
              r == IF action = None THEN Ret(state, <<>>)
                   ELSE update(state, action[1], now)
          IN /\ (action # None /\ action[1].type = "SearchInput") =>
                    Len(state.search_query) < MaxQuery
             /\ state' = r.state
             /\ hist' = [hist EXCEPT !.ev = action, !.pre = Some(state),
                                     !.effects = r.effects, !.steps = @ + 1,
                                     !.key = Some(event)]
    /\ UNCHANGED <<config, loop, queue, tasks, permits, cache, now, opened>>

NextReducer == Apply \/ Press

SpecReducer == InitReducer /\ [][NextReducer]_vars

----------------------------------------------------------------------------
(* The navigation tree alone: rebuild_nav_tree applied to any orgs and     *)
(* nav_expanded                                                            *)

MaxRepos == 3

NavRepoNames == {<<"a">>, <<"r">>, <<"z">>}

\* The repositories an organization can hold: any PR count, archived or not.
NavRepos(owner) ==
    {Repo(owner, name, prs, archived) :
        name \in NavRepoNames, prs \in {1, 2}, archived \in BOOLEAN}

\* Repository lists of distinct names, in any order.
NavRepoLists(owner) ==
    {repos \in UNION {[1..n -> NavRepos(owner)] : n \in 0..MaxRepos} :
        \A i, j \in 1..Len(repos) : i # j => repos[i].name # repos[j].name}

NavOwnerSets == {{OrgA}, {OrgA, UserB}, {OrgA, UserB, Viewer}}

InitNav ==
    /\ config = ReducerConfig
    /\ \E owners \in NavOwnerSets, repos \in NavRepoLists(OrgA) :
       \E expanded \in SUBSET owners :
          state = [new(all_owners(config)) EXCEPT
                      !.orgs = [o \in owners |->
                                   [name |-> o,
                                    repos |-> IF o = OrgA THEN repos
                                              ELSE <<RepoR(o)>>]],
                      !.nav_expanded = expanded]
    /\ loop = "nav"
    /\ queue = <<>>
    /\ tasks = EmptyBag
    /\ permits = Permits
    /\ cache = <<>>
    /\ now = StartTime
    /\ opened = 0
    /\ hist = Hist0

\* state.rebuild_nav_tree()
Rebuild ==
    /\ hist.steps = 0
    /\ state' = rebuild_nav_tree(state)
    /\ hist' = [hist EXCEPT !.pre = Some(state), !.steps = 1]
    /\ UNCHANGED <<config, loop, queue, tasks, permits, cache, now, opened>>

NextNav == Rebuild

SpecNav == InitNav /\ [][NextNav]_vars

----------------------------------------------------------------------------
(* The cache store alone: set and get of a store of any TTL while the      *)
(* clock advances                                                          *)

MaxTtl == 1

\* The last tick of the clock the model follows.
MaxTime == 4

\* Keys the fetch tasks use.
CacheKeys == {cache_key(effect, ReducerConfig) : effect \in {FetchInbox, FetchAllOpenPrs}}

CacheValues == {<<Pr1>>, <<Pr2, Pr1>>}

\* History of the store: per key the last value set, when, and whether it
\* replaced another value; the last get, its result and the last set before it.
HistCache0 == [last |-> [key \in CacheKeys |-> None], got |-> None, faults |-> 0]

InitCache ==
    /\ \E ttl \in 0..MaxTtl : config = [ReducerConfig EXCEPT !.ttl_secs = ttl]
    /\ state = new(all_owners(config))
    /\ loop = "cache"
    /\ queue = <<>>
    /\ tasks = EmptyBag
    /\ permits = Permits
    /\ cache = <<>>
    /\ now = 0
    /\ opened = 0
    /\ hist = HistCache0

\* chrono::Utc::now() read later: the clock has advanced.
CacheTick ==
    /\ now < MaxTime
    /\ now' = now + 1
    /\ UNCHANGED <<config, state, loop, queue, tasks, permits, cache, opened, hist>>

\* cache.set(key, data) returning Ok
CacheSet ==
    /\ \E key \in CacheKeys, data \in CacheValues :
          /\ cache' = set(cache, key, data, now)
          /\ hist' = [hist EXCEPT
                         !.last[key] =
                             Some([data |-> data, at |-> now,
                                   over |-> @ # None /\ @[1].data # data])]
    /\ UNCHANGED <<config, state, loop, queue, tasks, permits, now, opened>>

\* cache.set(key, data) returning Err: the directory or the file is not writable.
CacheSetFails ==
    /\ hist.faults < MaxFaults
    /\ hist' = [hist EXCEPT !.faults = @ + 1]
    /\ UNCHANGED <<config, state, loop, queue, tasks, permits, cache, now, opened>>

\* cache.get(key)
CacheGet ==
    /\ \E key \in CacheKeys :
          hist' = [hist EXCEPT
                      !.got = Some([key |-> key, at |-> now, last |-> hist.last[key],
                                    result |-> get(cache, config.ttl_secs, key, now)])]
    /\ UNCHANGED <<config, state, loop, queue, tasks, permits, cache, now, opened>>

NextCache == CacheTick \/ CacheSet \/ CacheSetFails \/ CacheGet

SpecCache == InitCache /\ [][NextCache]_vars

----------------------------------------------------------------------------
(* The cache store alone: set, get, invalidate and invalidate_all on keys  *)
(* of any shape                                                            *)

\* A plain key, an owner/name key, keys that differ from it in the separator
\* only, and a key that names the parent directory.
StoreKeys ==
    {<<"a">>, <<"a", "/", "b">>, <<"a", "_", "b">>, <<"a", "\\", "b">>,
     <<".", ".", "/", "b">>}

\* History of the store: whether its directory exists, the last operation,
\* the directory it was applied to and whether it returned Ok.
HistStore0 == [exists |-> FALSE, op |-> None, pre |-> <<>>, ok |-> TRUE]

Op(type, key) == [type |-> type, key |-> key]

InitStore ==
    /\ config = ReducerConfig
    /\ state = new(all_owners(config))
    /\ loop = "store"
    /\ queue = <<>>
    /\ tasks = EmptyBag
    /\ permits = Permits
    /\ cache = <<>>
    /\ now = StartTime
    /\ opened = 0
    /\ hist \in {HistStore0, [HistStore0 EXCEPT !.exists = TRUE]}

\* cache.set(key, data): create_dir_all, then write the file.
StoreSet ==
    /\ \E key \in StoreKeys, data \in CacheValues :
          /\ cache' = set(cache, key, data, now)
          /\ hist' = [exists |-> TRUE, op |-> Some(Op("set", key)), pre |-> cache,
                      ok |-> TRUE]
    /\ UNCHANGED <<config, state, loop, queue, tasks, permits, now, opened>>

\* cache.get(key)
StoreGet ==
    /\ \E key \in StoreKeys :
          hist' = [hist EXCEPT !.op = Some(Op("get", key)), !.pre = cache, !.ok = TRUE]
    /\ UNCHANGED <<config, state, loop, queue, tasks, permits, cache, now, opened>>

\* cache.invalidate(key): remove the file if it exists.
StoreInvalidate ==
    /\ \E key \in StoreKeys :
          /\ cache' = invalidate(cache, key)
          /\ hist' = [hist EXCEPT !.op = Some(Op("invalidate", key)), !.pre = cache,
                                  !.ok = TRUE]
    /\ UNCHANGED <<config, state, loop, queue, tasks, permits, now, opened>>

\* cache.invalidate_all(): if the directory exists, remove its .json files.
StoreInvalidateAll ==
    /\ cache' = IF hist.exists THEN invalidate_all(cache) ELSE cache
    /\ hist' = [hist EXCEPT !.op = Some(Op("invalidate_all", <<>>)), !.pre = cache,
                            !.ok = TRUE]
    /\ UNCHANGED <<config, state, loop, queue, tasks, permits, now, opened>>

NextStore == StoreSet \/ StoreGet \/ StoreInvalidate \/ StoreInvalidateAll

SpecStore == InitStore /\ [][NextStore]_vars

----------------------------------------------------------------------------
(* The repo fetch tasks of two overlapping refreshes alone, under any      *)
(* include and exclude patterns                                            *)

IncludeLists ==
    {<<>>, << <<"r">> >>, << <<"a", "/", "*">> >>, << <<"b", "*">>, <<"a", "/", "z">> >>}

ExcludeLists == {<<>>, << <<"z", "*">> >>, << <<"a", "/", "r">> >>}

\* Raw repo lists an earlier run can have cached.
CachedRaw ==
    {<<RepoR(OrgA)>>, <<RepoR(OrgA), RepoZ(OrgA)>>, <<RepoZ(OrgA), RepoR(OrgA)>>}

InitFilter ==
    /\ \E include \in IncludeLists, exclude \in ExcludeLists :
          config = [Snapshot(<<OrgA>>, <<>>, TRUE) EXCEPT !.include_repos = include,
                                                          !.exclude_repos = exclude]
    /\ state = update(new(all_owners(config)), OrgRepos(OrgA, <<>>, RateLimitDefault),
                      StartTime).state
    /\ loop = "running"
    /\ queue = <<>>
    /\ tasks = SetToBag({Task(FetchOrgRepos(OrgA))}) (+) SetToBag({Task(FetchOrgRepos(OrgA))})
    /\ permits = Permits
    /\ \/ cache = <<>>
       \/ \E raw \in CachedRaw :
             cache = set(<<>>, cache_key(FetchOrgRepos(OrgA), config), raw, StartTime)
    /\ now = StartTime
    /\ opened = 0
    /\ hist = Hist0

NextFilter ==
    \/ Receive
    \/ TaskCacheHit
    \/ TaskCacheMiss
    \/ TaskFetchOk
    \/ TaskFetchErr
    \/ TaskDeliver

SpecFilter == InitFilter /\ [][NextFilter]_vars

----------------------------------------------------------------------------
(* github/graphql.rs: fetch_inbox on any results of its two searches       *)

Ok(val) == [ok |-> TRUE, val |-> val]
Err(e) == [ok |-> FALSE, err |-> e]

\* (pr.repo_full_name(), pr.number)
InboxKey(pr) == <<repo_full_name(pr), pr.number>>

DedupByNumber(prs) ==
    LET F[i \in 0..Len(prs)] ==
            IF i = 0 THEN <<>>
            ELSE IF \E j \in 1..Len(F[i - 1]) : F[i - 1][j].number = prs[i].number
                 THEN F[i - 1]
                 ELSE Append(F[i - 1], prs[i])
    IN F[Len(prs)]

\* for pr in .. { if seen.insert(key) { inbox.push(pr) } }
Dedup(prs) ==
    LET F[i \in 0..Len(prs)] ==
            IF i = 0 THEN <<>>
            ELSE IF \E j \in 1..Len(F[i - 1]) : InboxKey(F[i - 1][j]) = InboxKey(prs[i])
                 THEN F[i - 1]
                 ELSE Append(F[i - 1], prs[i])
    IN F[Len(prs)]

\* |a, b| b.updated_at.cmp(&a.updated_at) is Less
UpdatedLater(a, b) == b.updated_at < a.updated_at

\* fetch_inbox after tokio::join! has returned the results of the two searches.
fetch_inbox(review_result, assigned_result) ==
    IF ~review_result.ok
    THEN Err(<<"Failed to fetch review-requested PRs", review_result.err>>)
    ELSE IF ~assigned_result.ok
    THEN Err(<<"Failed to fetch assigned PRs", assigned_result.err>>)
    ELSE Ok([prs |-> SortBy(Dedup(review_result.val.prs \o assigned_result.val.prs),
                            UpdatedLater),
             rate_limit |-> assigned_result.val.rate_limit])

MaxInbox == 2

\* PRs the searches can return: Pr1, Pr1 as seen after an update, Pr2 and a
\* PR of Pr2's repo with Pr1's number and time.
InboxPool ==
    {Pr1, [Pr1 EXCEPT !.updated_at = 2, !.title = <<"b">>], Pr2,
     PullRequest(OrgA, <<"z">>, 1, <<"z">>, <<"a">>, 1)}

\* search_prs: Ok((all_prs, rate_limit)) or Err.
SearchResults ==
    {Ok([prs |-> prs, rate_limit |-> rate_limit]) :
        prs \in UNION {[1..n -> InboxPool] : n \in 0..MaxInbox}, rate_limit \in RateLimits}
    \cup {Err(e) : e \in Errors}

\* History of the call: the results of the two searches and what
\* fetch_inbox returned.
HistInbox(review, assigned, result) ==
    [review |-> review, assigned |-> assigned, result |-> result]

InitInbox ==
    /\ config = ReducerConfig
    /\ state = new(all_owners(config))
    /\ loop = "inbox"
    /\ queue = <<>>
    /\ tasks = EmptyBag
    /\ permits = Permits
    /\ cache = <<>>
    /\ now = StartTime
    /\ opened = 0
    /\ \E review \in SearchResults, assigned \in SearchResults :
          hist = HistInbox(review, assigned, None)

\* client.fetch_inbox(&login).await
InboxCall ==
    /\ hist.result = None
    /\ hist' = [hist EXCEPT !.result = Some(fetch_inbox(hist.review, hist.assigned))]
    /\ UNCHANGED <<config, state, loop, queue, tasks, permits, cache, now, opened>>

NextInbox == InboxCall

SpecInbox == InitInbox /\ [][NextInbox]_vars

----------------------------------------------------------------------------
(* glob_match applied to patterns and texts over a small alphabet *)

MaxPattern == 3
MaxText == 3

\* The sequences over the alphabet of length at most n.
Strings(alphabet, n) == UNION {[1..k -> alphabet] : k \in 0..n}

GlobPatterns == Strings({"a", "b", "*"}, MaxPattern)
GlobTexts == Strings({"a", "b"}, MaxText)

HistGlob(pattern, text, result) == [pattern |-> pattern, text |-> text, result |-> result]

InitGlob ==
    /\ config = ReducerConfig
    /\ state = new(all_owners(config))
    /\ loop = "glob"
    /\ queue = <<>>
    /\ tasks = EmptyBag
    /\ permits = Permits
    /\ cache = <<>>
    /\ now = StartTime
    /\ opened = 0
    /\ \E pattern \in GlobPatterns, text \in GlobTexts :
          hist = HistGlob(pattern, text, None)

\* glob_match(pattern, text)
GlobCall ==
    /\ hist.result = None
    /\ hist' = [hist EXCEPT !.result = Some(glob_match(hist.pattern, hist.text))]
    /\ UNCHANGED <<config, state, loop, queue, tasks, permits, cache, now, opened>>

NextGlob == GlobCall

SpecGlob == InitGlob /\ [][NextGlob]_vars

----------------------------------------------------------------------------
(* app/event_loop.rs: the fetch tasks of two overlapping refreshes *)

\* What a data-source call can return while the data changes between calls.
OverlapData(effect) ==
    IF IsRepoFetch(effect) THEN SourceData(effect) ELSE {<<Pr1>>, <<Pr2, Pr1>>}

\* "sent": the results sent so far, in the order of the sends, each with the
\* refresh (1 or 2) whose dispatch spawned the sending task; "what": the
\* fetch the two refreshes still have outstanding.
HistOverlap(effect) ==
    [f \in DOMAIN Hist0 \cup {"sent", "what"} |->
        CASE f = "sent" -> <<>>
          [] f = "what" -> effect
          [] OTHER -> Hist0[f]]

Dispatched(effect, seq) ==
    [effect |-> effect, pc |-> "waiting", res |-> None, seq |-> seq]

OverlapEffects == <<FetchOrgRepos(OrgA), FetchInbox, FetchAllOpenPrs>>

\* The state in which both refreshes' fetches of the effect are outstanding
\* and every other fetch has failed: the placeholder and the LoadErrors of
\* the initial fetch, the Refresh, and the same of the second dispatch.
OverlapStart(effect) ==
    LET cfg == Snapshot(<<OrgA>>, <<>>, FALSE)
        others == SelectSeq(OverlapEffects, LAMBDA e : e # effect)
        Round(s) ==
            LET s1 == update(s, OrgRepos(OrgA, <<>>, RateLimitDefault), StartTime).state
                s2 == update(s1, Failed(others[1], "timeout"), StartTime).state
            IN update(s2, Failed(others[2], "timeout"), StartTime).state
    IN Round(update(Round(new(all_owners(cfg))), Act("Refresh"), StartTime).state)

InitOverlap ==
    /\ config = Snapshot(<<OrgA>>, <<>>, FALSE)
    /\ \E e \in Range(OverlapEffects) :
          /\ state = OverlapStart(e)
          /\ tasks = SetToBag({Dispatched(e, 1), Dispatched(e, 2)})
          /\ hist = HistOverlap(e)
    /\ loop = "running"
    /\ queue = <<>>
    /\ permits = Permits
    /\ cache = <<>>
    /\ now = StartTime
    /\ opened = 0

Record(t, action) ==
    Append(hist.sent, [seq |-> t.seq, what |-> t.effect.type, action |-> action])

\* client.fetch_*(..).await returns Ok((data, rate_limit)); there is no cache.
OverlapFetchOk(t) ==
    /\ t.pc = "calling"
    /\ \E data \in OverlapData(t.effect), rate_limit \in RateLimits :
          tasks' = Move(t, "stored", Some([data |-> data, rate_limit |-> rate_limit]))
    /\ UNCHANGED <<config, state, loop, queue, permits, cache, now, opened, hist>>

\* client.fetch_*(..).await returns Err(e): send LoadError and finish.
OverlapFetchErr(t) ==
    /\ t.pc = "calling"
    /\ hist.faults < MaxFaults
    /\ Room
    /\ \E e \in Errors :
          /\ queue' = Send(queue, Item(Failed(t.effect, e), TRUE))
          /\ hist' = [hist EXCEPT !.faults = @ + 1, !.sent = Record(t, Failed(t.effect, e))]
    /\ tasks' = Finish(t)
    /\ permits' = permits + 1
    /\ UNCHANGED <<config, state, loop, cache, now, opened>>

\* Send the result and finish; the permit is dropped with the task.
OverlapDeliver(t) ==
    /\ t.pc = "stored"
    /\ Room
    /\ LET action == Loaded(t.effect, config, t.res[1].data, t.res[1].rate_limit)
       IN /\ queue' = Send(queue, Item(action, TRUE))
          /\ hist' = [hist EXCEPT !.sent = Record(t, action)]
    /\ tasks' = Finish(t)
    /\ permits' = permits + 1
    /\ UNCHANGED <<config, state, loop, cache, now, opened>>

TaskOverlapFetchOk == Alive /\ \E t \in BagToSet(tasks) : OverlapFetchOk(t)
TaskOverlapFetchErr == Alive /\ \E t \in BagToSet(tasks) : OverlapFetchErr(t)
TaskOverlapDeliver == Alive /\ \E t \in BagToSet(tasks) : OverlapDeliver(t)

NextOverlap ==
    \/ Receive
    \/ TaskCacheMiss
    \/ TaskOverlapFetchOk
    \/ TaskOverlapFetchErr
    \/ TaskOverlapDeliver

SpecOverlap == InitOverlap /\ [][NextOverlap]_vars

----------------------------------------------------------------------------
(* app/update.rs, app/state.rs: the navigation pane across a refresh *)

MaxMoves == 6       \* MoveDown presses before the refresh

RECURSIVE MovedDown(_, _)
MovedDown(s, k) ==
    IF k = 0 THEN s ELSE MovedDown(update(s, Act("MoveDown"), StartTime).state, k - 1)

\* The states before the refresh: both owners' repos loaded, the cursor moved
\* down the tree and the node under it selected or not.
Navigated ==
    LET s0 == new(all_owners(ReducerConfig))
        s1 == update(s0, OrgRepos(OrgA, <<RepoZ(OrgA), RepoR(OrgA)>>, RateLimitDefault),
                     StartTime).state
        s2 == update(s1, OrgRepos(UserB, <<RepoR(UserB)>>, RateLimitDefault),
                     StartTime).state
    IN {MovedDown(s2, k) : k \in 0..MaxMoves}
          \cup {update(MovedDown(s2, k), Act("Select"), StartTime).state : k \in 0..MaxMoves}

\* "before": the state the Refresh was applied to; "todo": the owners whose
\* placeholder is on the channel; "got": the owners whose result was applied.
HistPlaceholder(s) ==
    [f \in DOMAIN Hist0 \cup {"before", "todo", "got"} |->
        CASE f = "before" -> s
          [] f = "todo" -> <<>>
          [] f = "got" -> {}
          [] OTHER -> Hist0[f]]

InitPlaceholder ==
    /\ config = ReducerConfig
    /\ state \in Navigated
    /\ loop = "refresh"
    /\ queue = <<>>
    /\ tasks = EmptyBag
    /\ permits = Permits
    /\ cache = <<>>
    /\ now = StartTime
    /\ opened = 0
    /\ hist = HistPlaceholder(state)

\* Action::Refresh is applied; spawn_side_effect sends one placeholder per
\* owner, orgs before users, ahead of every result.
RefreshApplied ==
    /\ hist.steps = 0
    /\ state' = update(state, Act("Refresh"), now).state
    /\ hist' = [hist EXCEPT !.ev = Some(Act("Refresh")), !.pre = Some(state),
                            !.steps = 1, !.todo = all_owners(config)]
    /\ UNCHANGED <<config, loop, queue, tasks, permits, cache, now, opened>>

\* The placeholder at the head of the channel is applied.
PlaceholderApplied ==
    /\ hist.todo # <<>>
    /\ LET action == OrgRepos(Head(hist.todo), <<>>, RateLimitDefault)
       IN /\ state' = update(state, action, now).state
          /\ hist' = [hist EXCEPT !.ev = Some(action), !.pre = Some(state),
                                  !.steps = @ + 1, !.todo = Tail(@)]
    /\ UNCHANGED <<config, loop, queue, tasks, permits, cache, now, opened>>

\* The result of an owner's fetch is applied: the repos as before or changed.
ResultApplied ==
    /\ hist.steps > 0
    /\ hist.todo = <<>>
    /\ \E owner \in Range(all_owners(config)) \ hist.got :
       \E repos \in {<<RepoR(owner)>>, <<RepoZ(owner), RepoR(owner)>>}, rl \in RateLimits :
          LET action == OrgRepos(owner, repos, rl)
          IN /\ state' = update(state, action, now).state
             /\ hist' = [hist EXCEPT !.ev = Some(action), !.pre = Some(state),
                                     !.steps = @ + 1, !.got = @ \cup {owner}]
    /\ UNCHANGED <<config, loop, queue, tasks, permits, cache, now, opened>>

NextPlaceholder ==
    \/ RefreshApplied
    \/ PlaceholderApplied
    \/ ResultApplied

SpecPlaceholder == InitPlaceholder /\ [][NextPlaceholder]_vars

----------------------------------------------------------------------------
(* Claims *)

\* The last action the reducer applied and the state it was applied to
\* (recorded under SpecReducer).
Applied(type) == hist.ev # None /\ hist.ev[1].type = type
Pre == hist.pre[1]

\* The result a fetch task ends with is on the channel, not yet applied.
Pending(IsResult(_)) ==
    \E i \in 1..Len(queue) : queue[i].final /\ IsResult(queue[i].action)

\* A fetch task has been dispatched and the result it ends with has not been
\* applied: the task has not finished, or its result is still on the channel.
FetchOutstanding ==
    LET AnyResult(action) == TRUE
    IN tasks # EmptyBag \/ Pending(AnyResult)

RepoFetchOutstanding(owner) ==
    LET ForOwner(action) ==
            \/ action.type = "DataLoaded" /\ action.kind = "OrgRepos" /\ action.org = owner
            \/ action.type = "LoadError" /\ action.msg.who = owner
    IN \/ \E t \in BagToSet(tasks) : IsRepoFetch(t.effect) /\ t.effect.owner = owner
       \/ Pending(ForOwner)

\* C1: while a dispatched fetch task's result has not been applied and no
\* LoadError has been applied since the dispatch, loading is true. Stated on
\* the runs in which nothing has failed, where no LoadError exists at all.
C1_LoadingWhileOutstanding ==
    (FetchOutstanding /\ hist.faults = 0) => state.loading

\* C2: an owner is in loading_orgs exactly while a repository fetch for it
\* has been dispatched and its result has not been applied.
C2_LoadingOrgsTracksFetches ==
    \A i \in 1..Len(all_owners(config)) :
        LET owner == all_owners(config)[i]
        IN (owner \in state.loading_orgs) <=> RepoFetchOutstanding(owner)

\* C3: whenever the visible PR list is not empty, content_cursor is at most
\* its last index, after any sequence of reducer actions.
C3_ContentCursorInRange ==
    current_pr_list(state) # <<>> =>
        state.content_cursor <= Len(current_pr_list(state)) - 1

\* C4: nav_nodes is never empty and nav_cursor is one of its indices; MoveUp
\* at the first node and MoveDown at the last leave nav_cursor where it was;
\* an action that leaves fewer nodes than nav_cursor pointed into puts
\* nav_cursor on the new last node.
C4_NavCursorInRange ==
    /\ state.nav_nodes # <<>>
    /\ state.nav_cursor \in 0..(Len(state.nav_nodes) - 1)
    /\ (Applied("MoveUp") /\ Pre.nav_cursor = 0) => state.nav_cursor = 0
    /\ (Applied("MoveDown") /\ Pre.nav_cursor = Len(Pre.nav_nodes) - 1) =>
           state.nav_cursor = Pre.nav_cursor
    /\ (hist.ev # None /\ Pre.nav_cursor >= Len(state.nav_nodes)) =>
           state.nav_cursor = Len(state.nav_nodes) - 1

\* A DataLoaded that took repositories away was applied with nav_cursor
\* below the nodes that are left.
C4_ClampedAfterShrink ==
    /\ Applied("DataLoaded")
    /\ Len(state.nav_nodes) < Len(Pre.nav_nodes)
    /\ Pre.nav_cursor >= Len(state.nav_nodes)
    /\ state.nav_cursor = Len(state.nav_nodes) - 1

\* The fetch tasks between acquiring a permit and finishing.
Holding == [t \in {x \in BagToSet(tasks) : x.pc # "waiting"} |-> tasks[t]]

Waiting == [t \in {x \in BagToSet(tasks) : x.pc = "waiting"} |-> tasks[t]]

\* What the loop starts when it applies the action in the current state.
Starts(type) == SpawnEach(update(state, Act(type), now).effects, config)

\* C5: at most four fetch tasks are between acquiring a permit and
\* finishing; opening a URL takes no permit and starts no fetch task, and
\* the reducer's OpenUrl is started whatever the number of permits held.
C5_AtMostFourFetching ==
    /\ [](/\ permits \in 0..Permits
          /\ BagCardinality(Holding) = Permits - permits
          /\ BagCardinality(Holding) <= 4)
    /\ [](\A type \in {"OpenInBrowser", "Select"} :
              /\ Starts(type).urls > 0 => Starts(type).tasks = EmptyBag
              /\ (type = "OpenInBrowser" /\ state.focused_pane = "Content"
                    /\ selected_pr_url(state) # None) => Starts(type).urls = 1)
    /\ [][opened' # opened =>
              /\ opened' = opened + 1
              /\ permits' = permits
              /\ tasks' = tasks]_vars

\* All four permits are held, a fifth task waits, and a PR is selected in
\* the content pane, where Enter opens it.
C5_AllPermitsHeld ==
    /\ permits = 0
    /\ BagCardinality(Holding) = 4
    /\ Waiting # EmptyBag
    /\ state.focused_pane = "Content"
    /\ Starts("Select").urls = 1

\* A step in which a waiting task whose key has a live cache entry goes on.
LiveEntry(t) ==
    /\ config.cache_store
    /\ get(cache, config.ttl_secs, cache_key(t.effect, config), now) # None

Cached(t) == get(cache, config.ttl_secs, cache_key(t.effect, config), now)[1]

\* C6: a fetch task that finds a live cache entry sends one DataLoaded built
\* from the cached value and finishes without calling the data source.
C6_CacheHitSkipsSource ==
    [][\A t \in BagToSet(tasks) :
          (t.pc = "waiting" /\ LiveEntry(t) /\ CopiesIn(t, tasks') < CopiesIn(t, tasks)) =>
              /\ tasks' = tasks (-) SetToBag({t})
              /\ queue' = Append(queue, Item(Loaded(t.effect, config, Cached(t),
                                                    RateLimitDefault), TRUE))
              /\ cache' = cache
              /\ permits' = permits]_vars

\* After a Refresh, with the first cached all-open-PRs result applied, the
\* result of the second task is on the channel, again from the cache.
C6_HitAfterRefresh ==
    /\ hist.refreshes = 1
    /\ state.all_open_prs = <<Pr1>>
    /\ \E i \in 1..Len(queue) :
          queue[i] = Item(AllOpenPrs(<<Pr1>>, RateLimitDefault), TRUE)

\* The data-source call of task t returns Ok in this step: t goes from the
\* call to holding the result u.res.
Replied(t, u) ==
    /\ t.pc = "calling"
    /\ u.pc = "stored"
    /\ u.effect = t.effect
    /\ tasks' = (tasks (-) SetToBag({t})) (+) SetToBag({u})

RepoKeys ==
    {path_for_key(cache_key(effect, config)) :
        effect \in {FetchOrgRepos(all_owners(config)[i]) : i \in 1..Len(all_owners(config))}
                   \cup {FetchUserRepos(all_owners(config)[i]) :
                            i \in 1..Len(all_owners(config))}}

\* C7: after a cache miss and a successful data-source call the task writes
\* the raw result to the cache before it sends anything, then sends exactly
\* one DataLoaded built from the result, whether the write succeeded or not;
\* what the cache holds under a repository key is a raw result, which
\* still has the repositories the configured filter removes.
C7_RawResultCachedThenSent ==
    /\ [][\A t \in BagToSet(tasks) : \A u \in BagToSet(tasks') :
             Replied(t, u) =>
                 /\ queue' = queue
                 /\ u.res # None /\ u.res[1].data \in SourceData(t.effect)
                 /\ \/ cache' = cache
                    \/ /\ config.cache_store
                       /\ cache' = set(cache, cache_key(t.effect, config),
                                       u.res[1].data, now)]_vars
    /\ [][\A t \in BagToSet(tasks) :
             (t.pc = "stored" /\ CopiesIn(t, tasks') < CopiesIn(t, tasks)) =>
                 /\ tasks' = tasks (-) SetToBag({t})
                 /\ queue' = Append(queue, Item(Loaded(t.effect, config, t.res[1].data,
                                                       t.res[1].rate_limit), TRUE))
                 /\ cache' = cache]_vars
    /\ [](\A path \in RepoKeys \cap DOMAIN cache :
              cache[path].parses =>
                  /\ cache[path].data \in SourceData(FetchOrgRepos(OrgA))
                  /\ filter_repos(cache[path].data, config.include_repos,
                                  config.exclude_repos) # cache[path].data)

\* A task holds a result that its cache write has stored unfiltered and has
\* not sent yet, and another holds a result whose write failed.
C7_StoredBeforeSent ==
    /\ \E t \in BagToSet(tasks) :
          /\ t.pc = "stored" /\ IsRepoFetch(t.effect)
          /\ LiveEntry(t) /\ Cached(t) = t.res[1].data
          /\ Cached(t) # Loaded(t.effect, config, t.res[1].data, t.res[1].rate_limit).repos
    /\ \E u \in BagToSet(tasks) : u.pc = "stored" /\ config.cache_store /\ ~LiveEntry(u)
    /\ ~\E i \in 1..Len(queue) : queue[i].final

\* The data-source call of a task fails in this step.
SourceFailure ==
    /\ hist'.faults = hist.faults + 1
    /\ BagCardinality(tasks') < BagCardinality(tasks)

\* C8: when the data-source call fails the task sends exactly one LoadError
\* and no DataLoaded, writes nothing to the cache and returns its permit.
C8_FailureSendsOneError ==
    [][SourceFailure =>
          \E t \in BagToSet(tasks) :
              /\ t.pc = "calling"
              /\ tasks' = tasks (-) SetToBag({t})
              /\ \E e \in Errors :
                    queue' = Append(queue, Item(Failed(t.effect, e), TRUE))
              /\ cache' = cache
              /\ permits' = permits + 1]_vars

\* The inbox call has failed: its LoadError is on the channel, no permit is
\* held and the expired inbox entry of the cache is as it was.
C8_ErrorQueued ==
    /\ \E i \in 1..Len(queue) : \E e \in Errors :
          queue[i] = Item(Failed(FetchInbox, e), TRUE)
    /\ ~\E t \in BagToSet(tasks) : t.effect = FetchInbox
    /\ permits = Permits
    /\ config.cache_store
    /\ cache[path_for_key(cache_key(FetchInbox, config))]
          = StartDir[path_for_key(cache_key(FetchInbox, config))]

\* The tasks a RefreshAll starts for the configuration, all at sem.acquire.
RefreshTasks ==
    LET owners == all_owners(config)
    IN SetToBag({Task(FetchOrgRepos(config.orgs[i])) : i \in 1..Len(config.orgs)})
       (+) SetToBag({Task(FetchUserRepos(config.users[i])) : i \in 1..Len(config.users)})
       (+) SetToBag({Task(FetchInbox), Task(FetchAllOpenPrs)})

\* C9: a RefreshAll starts one task per organization, one per user, one for
\* the inbox and one for all open PRs, |O| + |U| + 2 in all (5 for two
\* organizations and one user), in the step that dispatches it; no task is
\* started for RefreshAll itself.
C9_RefreshAllFansOut ==
    /\ [][(loop = "start" /\ loop' = "running") \/ hist'.refreshes = hist.refreshes + 1 =>
             /\ tasks' = tasks (+) RefreshTasks
             /\ BagCardinality(tasks') =
                    BagCardinality(tasks) + Len(config.orgs) + Len(config.users) + 2]_vars
    /\ [](\A t \in BagToSet(tasks) : t.effect.type # "RefreshAll")
    /\ [](loop = "start" =>
          LET two == Snapshot(<<OrgA, UserB>>, <<Viewer>>, TRUE)
              sp == spawn_side_effect(RefreshAll, two)
          IN /\ BagCardinality(sp.tasks) = 5
             /\ \A t \in BagToSet(sp.tasks) : t.pc = "waiting" /\ sp.tasks[t] = 1
             /\ sp.urls = 0)

\* A Refresh has been dispatched and none of its |O| + |U| + 2 tasks has
\* acquired a permit yet.
C9_RefreshDispatched ==
    /\ hist.refreshes = 1
    /\ BagCardinality(Waiting) = Len(config.orgs) + Len(config.users) + 2
    /\ \A t \in BagToSet(RefreshTasks) : t \in BagToSet(Waiting)

C11_TimerSkippedWhileLoading ==
    /\ [][RefreshTimer =>
             IF state.loading THEN UNCHANGED vars
             ELSE /\ state' = [state EXCEPT !.loading = TRUE, !.error_message = None]
                  /\ tasks' = tasks (+) RefreshTasks
                  /\ hist'.refreshes = hist.refreshes + 1
                  /\ UNCHANGED <<permits, cache, opened, loop>>]_vars
    /\ [][hist'.refreshes = hist.refreshes + 1 => RefreshTimer /\ ~state.loading]_vars

\* The timer's Refresh was applied over an error message nobody dismissed.
C11_RefreshedOverError ==
    /\ hist.refreshes = 1
    /\ hist.over_error
    /\ state.loading
    /\ state.error_message = None

\* The key events the translation is stated on.
KeyEvents ==
    PressedKeys
    \cup {Char(c) : c \in {"j", "k", "l", "h", "o", "c", "x"}}
    \cup {Key(code) : code \in {"Down", "Up", "Right", "Left", "Tab", "BackTab", "F1"}}
    \cup {Release(c) : c \in {"r", "/"}}
    \cup {[Key("Esc") EXCEPT !.press = FALSE], [Ctrl("q") EXCEPT !.press = TRUE]}

\* The fixed key map of normal mode, by the action it gives.
KeysOf(type) ==
    CASE type = "Quit" -> {Char("q"), Ctrl("q"), Ctrl("c")}
      [] type = "MoveDown" -> {Char("j"), Key("Down")}
      [] type = "MoveUp" -> {Char("k"), Key("Up")}
      [] type = "Select" -> {Key("Enter"), Char("l"), Key("Right")}
      [] type = "Back" -> {Key("Esc"), Char("h"), Key("Left")}
      [] type = "SwitchPane" -> {Key("Tab"), Key("BackTab")}
      [] type = "Refresh" -> {Char("r")}
      [] type = "OpenInBrowser" -> {Char("o")}
      [] type = "ToggleSearch" -> {Char("/")}

KeyMapTypes ==
    {"Quit", "MoveDown", "MoveUp", "Select", "Back", "SwitchPane", "Refresh",
     "OpenInBrowser", "ToggleSearch"}

\* C12: key translation is modal. A key event that is not a press gives
\* nothing; with an error message shown only Esc gives an action,
\* DismissError, whatever the search mode; otherwise with search active Esc
\* and Enter give ToggleSearch, Backspace SearchBackspace, a character key
\* SearchInput of that character, and nothing else gives an action;
\* otherwise the fixed key map applies. The loop applies exactly the action
\* the translation gives.
C12_KeyTranslationIsModal ==
    /\ \A event \in KeyEvents :
          LET got == map_event_to_action(event, state)
          IN IF ~event.press THEN got = None
             ELSE IF state.error_message # None
             THEN got = (IF event.code = "Esc" THEN Some(Act("DismissError")) ELSE None)
             ELSE IF state.search_active
             THEN /\ event.code \in {"Esc", "Enter"} => got = Some(Act("ToggleSearch"))
                  /\ event.code = "Backspace" => got = Some(Act("SearchBackspace"))
                  /\ event.code = "Char" => got = Some(SearchInput(event.c))
                  /\ event.code \notin {"Esc", "Enter", "Backspace", "Char"} => got = None
             ELSE /\ \A type \in KeyMapTypes : event \in KeysOf(type) => got = Some(Act(type))
                  /\ (\A type \in KeyMapTypes : event \notin KeysOf(type)) => got = None
    /\ hist.key # None =>
          /\ hist.ev = map_event_to_action(hist.key[1], Pre)
          /\ hist.ev = None => state = Pre
          /\ hist.ev # None => state = update(Pre, hist.ev[1], now).state
          /\ (Pre.error_message # None /\ hist.key[1].code # "Esc") => state = Pre
          /\ (Pre.error_message = None /\ Pre.search_active /\ hist.key[1] = Char("q")) =>
                 /\ state.should_quit = Pre.should_quit
                 /\ state.search_query = Append(Pre.search_query, "q")

\* With search active and no error shown q was pressed: it is in the query
\* and the program has not quit.
C12_QTypedIntoQuery ==
    /\ hist.key = Some(Char("q"))
    /\ Pre.search_active /\ Pre.error_message = None
    /\ state.search_query = <<"q">>
    /\ ~state.should_quit

\* The two states agree on every field but the ones named.
SameExcept(s1, s2, fields) == \A f \in (DOMAIN s1) \ fields : s1[f] = s2[f]

\* The DataLoaded actions of ReducerActions.
Payloads == {action \in ReducerActions : action.type = "DataLoaded"}

\* C13: LoadError(msg) sets loading to false, empties loading_orgs, sets
\* error_message to msg in place of any earlier message, returns no intent
\* and leaves every other field as it was.
C13_LoadErrorFrame ==
    /\ Applied("LoadError") =>
          /\ state = [Pre EXCEPT !.loading = FALSE, !.loading_orgs = {},
                                 !.error_message = Some(hist.ev[1].msg)]
          /\ hist.effects = <<>>
    /\ \A action \in {a \in ReducerActions : a.type = "LoadError"} :
          LET before == [state EXCEPT !.loading_orgs = {OrgA, UserB}]
              r == update(before, action, now)
          IN /\ r.effects = <<>>
             /\ ~r.state.loading
             /\ r.state.loading_orgs = {}
             /\ r.state.error_message = Some(action.msg)
             /\ SameExcept(r.state, before, {"loading", "loading_orgs", "error_message"})

\* A LoadError was applied over a different message, with data loaded and
\* the content pane focused.
C13_ErrorReplaced ==
    /\ Applied("LoadError")
    /\ Pre.error_message # None /\ Pre.error_message # state.error_message
    /\ Pre.inbox # <<>>
    /\ Pre.focused_pane = "Content"

\* C14: DataLoaded(OrgRepos) replaces exactly the named org's repo list and
\* leaves the other orgs, inbox and all_open_prs as they were; InboxPrs
\* replaces exactly inbox and AllOpenPrs exactly all_open_prs; no DataLoaded
\* changes error_message.
C14_DataLoadedReplaces ==
    Applied("DataLoaded") =>
        LET p == hist.ev[1]
        IN /\ state.error_message = Pre.error_message
           /\ p.kind = "OrgRepos" =>
                 /\ DOMAIN state.orgs = DOMAIN Pre.orgs \cup {p.org}
                 /\ state.orgs[p.org] = [name |-> p.org, repos |-> p.repos]
                 /\ \A o \in DOMAIN Pre.orgs \ {p.org} : state.orgs[o] = Pre.orgs[o]
                 /\ state.inbox = Pre.inbox
                 /\ state.all_open_prs = Pre.all_open_prs
           /\ p.kind = "InboxPrs" =>
                 /\ state.inbox = p.prs
                 /\ state.orgs = Pre.orgs
                 /\ state.all_open_prs = Pre.all_open_prs
           /\ p.kind = "AllOpenPrs" =>
                 /\ state.all_open_prs = p.prs
                 /\ state.orgs = Pre.orgs
                 /\ state.inbox = Pre.inbox

\* With an error shown, a result replaced a non-empty repo list by a
\* different one while another owner kept its repositories.
C14_ReplacedUnderError ==
    /\ Applied("DataLoaded") /\ hist.ev[1].kind = "OrgRepos" /\ hist.ev[1].org = OrgA
    /\ Pre.orgs[OrgA].repos # <<>>
    /\ state.orgs[OrgA].repos # Pre.orgs[OrgA].repos
    /\ state.orgs[UserB].repos # <<>>
    /\ state.error_message # None

\* The action carries no answer of the data source: it is the placeholder
\* sent at dispatch or was built from a cache entry (the data source never
\* answers with the default rate limit).
NoAnswer(action) == action.type = "DataLoaded" /\ action.rate_limit = RateLimitDefault

\* C15: rate_limit is the value returned by the most recent successful
\* data-source call whose action has been applied, so applying an action that
\* carries no data-source answer leaves rate_limit as it is.
C15_RateLimitKeptWithoutAnswer ==
    [][(Receive /\ NoAnswer(Head(queue).action)) =>
           state'.rate_limit = state.rate_limit]_vars

\* C16: a DataLoaded that leaves loading_orgs empty sets loading to false and
\* last_refresh to the time it is applied at; one applied while loading_orgs
\* stays non-empty changes neither; no other action changes last_refresh.
C16_LoadingCompleteStampsRefresh ==
    /\ Applied("DataLoaded") =>
          /\ state.loading_orgs = {} => ~state.loading /\ state.last_refresh = Some(now)
          /\ \A t \in {now, now + 1} :
                update(Pre, hist.ev[1], t).state.last_refresh = Some(t)
          /\ LET waiting == [Pre EXCEPT !.loading_orgs = {OrgA, UserB}, !.loading = TRUE]
                 after == update(waiting, hist.ev[1], now + 1).state
             IN /\ after.loading_orgs # {}
                /\ after.loading
                /\ after.last_refresh = Pre.last_refresh
    /\ (hist.pre # None /\ ~Applied("DataLoaded")) => state.last_refresh = Pre.last_refresh

\* A DataLoaded ended the loading of a state never refreshed before.
C16_LoadingEnded ==
    /\ Applied("DataLoaded")
    /\ Pre.loading
    /\ Pre.last_refresh = None
    /\ state.loading_orgs = {}
    /\ ~state.loading
    /\ state.last_refresh = Some(now)

\* C17: Refresh, in any state, sets loading to true, clears error_message,
\* returns exactly RefreshAll and changes nothing else.
C17_RefreshFrame ==
    Applied("Refresh") =>
        /\ state = [Pre EXCEPT !.loading = TRUE, !.error_message = None]
        /\ hist.effects = <<RefreshAll>>

\* Refresh was applied to a state already loading; its data stayed.
C17_RefreshWhileLoading ==
    /\ Applied("Refresh")
    /\ Pre.loading
    /\ Pre.inbox # <<>>
    /\ state.inbox = Pre.inbox
    /\ state.loading

\* The repositories an org shows in the tree: the non-archived ones of an
\* expanded org.
Shown(s, org) ==
    IF org \in s.nav_expanded
    THEN {r \in Range(s.orgs[org].repos) : ~r.is_archived}
    ELSE {}

\* The nodes the orgs of smaller name put into the tree.
NodesBefore(s, org) ==
    UNION {{<<o, None>>} \cup {<<o, Some(r)>> : r \in Shown(s, o)} :
              o \in {p \in DOMAIN s.orgs : StrLess(p, org)}}

\* C18: the tree is Inbox, AllPrs, then the orgs by ascending name, each
\* expanded org directly followed by its non-archived repos by open-PR count
\* descending and name ascending among equal counts; a collapsed org gives
\* only its node and an archived repo never appears.
C18_NavTreeLayout ==
    hist.steps = 1 =>
        LET nodes == state.nav_nodes
            Block(org) == Cardinality(Shown(state, org))
            At(org) == 3 + Cardinality(NodesBefore(state, org))
        IN /\ Len(nodes) =
                 2 + Cardinality(UNION {NodesBefore(state, o) \cup
                                            {<<o, None>>} \cup
                                            {<<o, Some(r)>> : r \in Shown(state, o)} :
                                        o \in DOMAIN state.orgs})
           /\ nodes[1] = MyInbox
           /\ nodes[2] = AllPrs
           /\ \A org \in DOMAIN state.orgs :
                 /\ nodes[At(org)] = OrgNode(org)
                 /\ {nodes[At(org) + i] : i \in 1..Block(org)} =
                        {RepoNode(r) : r \in Shown(state, org)}
                 /\ \A i \in 1..(Block(org) - 1) :
                       LET a == nodes[At(org) + i]
                           b == nodes[At(org) + i + 1]
                       IN \/ a.open_prs > b.open_prs
                          \/ a.open_prs = b.open_prs /\ StrLess(a.name, b.name)
           /\ \A i \in 1..Len(nodes) :
                 nodes[i].kind = "Repo" =>
                    \A org \in DOMAIN state.orgs :
                       \A r \in Range(state.orgs[org].repos) :
                          (r.owner = nodes[i].owner /\ r.name = nodes[i].name)
                              => ~r.is_archived /\ org \in state.nav_expanded

\* The tree of an expanded org whose archived repo has the most open PRs and
\* whose two other repos tie, stored in descending name order, before a
\* collapsed org that has a repo.
C18_ArchivedHiddenTieByName ==
    /\ hist.steps = 1
    /\ state.orgs[OrgA].repos =
           <<Repo(OrgA, <<"z">>, 1, FALSE), Repo(OrgA, <<"r">>, 2, TRUE),
             Repo(OrgA, <<"a">>, 1, FALSE)>>
    /\ state.nav_expanded = {OrgA}
    /\ DOMAIN state.orgs = {OrgA, UserB}
    /\ state.nav_nodes =
           <<MyInbox, AllPrs, OrgNode(OrgA),
             RepoNode(Repo(OrgA, <<"a">>, 1, FALSE)),
             RepoNode(Repo(OrgA, <<"z">>, 1, FALSE)),
             OrgNode(UserB)>>

\* text contains pat when letter case is ignored.
ContainsIgnoringCase(text, pat) ==
    \E i \in 0..(Len(text) - Len(pat)) :
        \A j \in 1..Len(pat) : Lower(text[i + j]) = Lower(pat[j])

\* C19: the visible PR list is the list under the content view (inbox,
\* all_open_prs, all_open_prs of the selected owner/name, nothing for an org
\* overview), reduced in order to the PRs whose title, author, repo name or
\* owner/name contains the query, case ignored, when search is active with a
\* non-empty query, and the whole list otherwise; search_query is empty
\* whenever search is inactive.
VisibleAsStated(s) ==
    LET view == s.content_view
        query == s.search_query
        InRepo(pr) == pr.repo_owner = view.owner /\ pr.repo_name = view.name
        Hit(pr) ==
            \E text \in {pr.title, pr.author, pr.repo_name,
                         pr.repo_owner \o <<"/">> \o pr.repo_name} :
                ContainsIgnoringCase(text, query)
        underlying ==
            CASE view.kind = "Inbox" -> s.inbox
              [] view.kind = "AllOpenPrs" -> s.all_open_prs
              [] view.kind = "RepoPrList" -> SelectSeq(s.all_open_prs, InRepo)
              [] view.kind = "OrgOverview" -> <<>>
    IN IF s.search_active /\ query # <<>>
       THEN SelectSeq(underlying, Hit)
       ELSE underlying

C19_VisiblePrsFiltered ==
    /\ ~state.search_active => state.search_query = <<>>
    /\ current_pr_list(state) = VisibleAsStated(state)
    /\ state.content_view.kind \in {"RepoPrList", "OrgOverview"} =>
          \A query \in {<<"A">>, <<"r">>, <<"z">>} :
             LET searching == [state EXCEPT !.search_active = TRUE,
                                            !.search_query = query]
             IN current_pr_list(searching) = VisibleAsStated(searching)

\* A query one of two PRs matches leaves that PR alone.
C19_QueryNarrows ==
    /\ state.search_active
    /\ state.search_query = <<"r">>
    /\ state.content_view = ViewInbox
    /\ state.inbox = <<Pr2, Pr1>>
    /\ current_pr_list(state) = <<Pr1>>

NoFile(t) == path_for_key(cache_key(t.effect, config)) \notin DOMAIN cache

Unparsable(t) == ~NoFile(t) /\ ~cache[path_for_key(cache_key(t.effect, config))].parses

Expired(t) ==
    /\ ~NoFile(t)
    /\ ~Unparsable(t)
    /\ now - cache[path_for_key(cache_key(t.effect, config))].timestamp
           >= (config.ttl_secs + 1) * TicksPerSec

\* C21: get answers absent for a key with no file, an unparsable file or an
\* expired entry; the fetch task then goes on to the data-source call as on
\* any miss, and as long as no data-source call or cache write has failed no
\* LoadError is sent and no error message is shown.
C21_CorruptionIsAMiss ==
    /\ [](\A t \in BagToSet(tasks) :
             (NoFile(t) \/ Unparsable(t) \/ Expired(t)) =>
                 get(cache, config.ttl_secs, cache_key(t.effect, config), now) = None)
    /\ [][\A t \in BagToSet(tasks) :
             (/\ t.pc = "waiting"
              /\ NoFile(t) \/ Unparsable(t) \/ Expired(t)
              /\ CopiesIn(t, tasks') < CopiesIn(t, tasks)) =>
                 /\ tasks' = Move(t, "calling", None)
                 /\ permits' = permits - 1
                 /\ UNCHANGED <<state, queue, cache>>]_vars
    /\ [](hist.faults = 0 =>
             /\ state.error_message = None
             /\ \A i \in 1..Len(queue) : queue[i].action.type # "LoadError")

\* Two tasks of the first fetch are at their data-source calls, one after
\* finding no file and one after finding an expired entry, and no error is
\* shown or on its way.
C21_MissesCalling ==
    /\ \E org, inbox \in BagToSet(tasks) :
          /\ org.effect = FetchOrgRepos(OrgA) /\ org.pc = "calling" /\ NoFile(org)
          /\ inbox.effect = FetchInbox /\ inbox.pc = "calling" /\ Expired(inbox)
    /\ state.error_message = None
    /\ \A i \in 1..Len(queue) : queue[i].action.type # "LoadError"

\* get of the store on directory dir, at the time of the run.
Got(dir, key) == get(dir, config.ttl_secs, key, now)

\* C22: invalidate(k) leaves get(k) absent and the entry of every other key as
\* it was, and succeeds without effect when k has no entry; invalidate_all
\* leaves get absent for every key and succeeds on an empty or missing
\* directory.
C22_InvalidateFrame ==
    /\ (hist.op # None /\ hist.op[1].type = "invalidate") =>
          /\ hist.ok
          /\ Got(cache, hist.op[1].key) = None
          /\ \A key \in StoreKeys \ {hist.op[1].key} :
                Got(cache, key) = Got(hist.pre, key)
          /\ Got(hist.pre, hist.op[1].key) = None => cache = hist.pre
    /\ (hist.op # None /\ hist.op[1].type = "invalidate_all") =>
          /\ hist.ok
          /\ \A key \in StoreKeys : Got(cache, key) = None
          /\ hist.pre = <<>> => cache = <<>>

\* A file name that names a file directly inside the directory it is joined to.
Inside(file) ==
    /\ \A i \in 1..Len(file) : file[i] \notin {"/", "\\"}
    /\ file[Len(file)] = ".json"

\* The directory without one file.
Without(dir, file) == [g \in DOMAIN dir \ {file} |-> dir[g]]

\* C23: every file of the store lies directly inside its directory, its name
\* holding no '/' and no '\', whatever the key; set and invalidate touch one
\* such file, and get of a key reads the file set of that key wrote.
C23_FilesInsideStore ==
    /\ \A file \in DOMAIN cache : Inside(file)
    /\ (hist.op # None /\ hist.op[1].type = "set") =>
          \E file \in DOMAIN cache :
             /\ Inside(file)
             /\ Without(cache, file) = Without(hist.pre, file)
             /\ Got(cache, hist.op[1].key) = Some(cache[file].data)
             /\ Got(Without(cache, file), hist.op[1].key) = None
    /\ (hist.op # None /\ hist.op[1].type = "invalidate" /\ cache # hist.pre) =>
          \E file \in DOMAIN hist.pre :
             /\ Inside(file)
             /\ cache = Without(hist.pre, file)
             /\ Got(hist.pre, hist.op[1].key) = Some(hist.pre[file].data)

\* A key that names the parent directory was set: its file is in the store
\* directory and get of the key reads it.
C23_ParentKeyStaysInside ==
    /\ hist.op = Some(Op("set", <<".", ".", "/", "b">>))
    /\ DOMAIN cache = {<<".", ".", "_", "b", ".json">>}
    /\ Got(cache, <<".", ".", "/", "b">>) # None

\* The repos of a raw list that pass the configured patterns, in their order.
Passing(raw) ==
    LET Match(pattern, repo) ==
            \/ glob_match(pattern, repo.name)
            \/ glob_match(pattern, repo.owner \o <<"/">> \o repo.name)
        Passes(repo) ==
            /\ \/ config.include_repos = <<>>
               \/ \E i \in 1..Len(config.include_repos) :
                     Match(config.include_repos[i], repo)
            /\ \A i \in 1..Len(config.exclude_repos) :
                  ~Match(config.exclude_repos[i], repo)
    IN SelectSeq(raw, Passes)

\* C24: the repos a DataLoaded(OrgRepos) result carries are the raw repos, in
\* their order, that match an include pattern (when there are any) and no
\* exclude pattern, by bare name or by owner/name, whether the raw list came
\* from the cache or from the data source; the cache holds the raw list, so
\* both paths deliver the same list for it.
C24_BothPathsFilterRaw ==
    /\ [][\A t \in BagToSet(tasks) :
             /\ (t.pc = "waiting" /\ LiveEntry(t) /\ CopiesIn(t, tasks') < CopiesIn(t, tasks)) =>
                   queue'[Len(queue')].action =
                       OrgRepos(OrgA, Passing(Cached(t)), RateLimitDefault)
             /\ (t.pc = "stored" /\ CopiesIn(t, tasks') < CopiesIn(t, tasks)) =>
                   queue'[Len(queue')].action =
                       OrgRepos(OrgA, Passing(t.res[1].data), t.res[1].rate_limit)
             /\ (t.pc = "calling" /\ CopiesIn(t, tasks') < CopiesIn(t, tasks)
                    /\ cache' # cache) =>
                   \E u \in BagToSet(tasks') :
                      /\ u.pc = "stored"
                      /\ get(cache', config.ttl_secs, cache_key(t.effect, config), now)
                             = Some(u.res[1].data)]_vars
    /\ [](\A i \in 1..Len(queue) :
             queue[i].action.type = "DataLoaded" =>
                \E raw \in CachedRaw \cup SourceData(FetchOrgRepos(OrgA)) :
                   queue[i].action.repos = Passing(raw))

\* With an owner/name include pattern and an exclude pattern, the result of
\* the data source and the result read back from the cache are on the
\* channel, both the same filtered list.
C24_SameListFromBothPaths ==
    /\ config.include_repos = << <<"a", "/", "*">> >>
    /\ config.exclude_repos = << <<"z", "*">> >>
    /\ Len(queue) = 2
    /\ queue[1].action.rate_limit # RateLimitDefault
    /\ queue[2].action.rate_limit = RateLimitDefault
    /\ queue[1].action.repos = <<RepoR(OrgA)>>
    /\ queue[2].action.repos = <<RepoR(OrgA)>>

\* C25: the inbox holds every identity (repo full name, number) of the
\* review-requested results R and the assigned results A once, as its first
\* occurrence in R followed by A, by updated-at descending with equal times in
\* R-before-A order; when either search fails fetch_inbox fails and returns
\* no list.
C25_InboxMergesBothSearches ==
    hist.result # None =>
        LET result == hist.result[1]
        IN /\ result.ok <=> (hist.review.ok /\ hist.assigned.ok)
           /\ ~result.ok => DOMAIN result = {"ok", "err"}
           /\ result.ok =>
                 LET all == hist.review.val.prs \o hist.assigned.val.prs
                     inbox == result.val.prs
                     Id(pr) == <<pr.repo_owner \o <<"/">> \o pr.repo_name, pr.number>>
                     First(id) == CHOOSE j \in 1..Len(all) :
                                     /\ Id(all[j]) = id
                                     /\ \A k \in 1..(j - 1) : Id(all[k]) # id
                 IN /\ {Id(inbox[i]) : i \in 1..Len(inbox)} =
                           {Id(all[j]) : j \in 1..Len(all)}
                    /\ \A i, j \in 1..Len(inbox) : i # j => Id(inbox[i]) # Id(inbox[j])
                    /\ \A i \in 1..Len(inbox) : inbox[i] = all[First(Id(inbox[i]))]
                    /\ \A i, j \in 1..Len(inbox) :
                          i < j =>
                             \/ inbox[i].updated_at > inbox[j].updated_at
                             \/ /\ inbox[i].updated_at = inbox[j].updated_at
                                /\ First(Id(inbox[i])) < First(Id(inbox[j]))

\* A PR in both results, updated between the two searches, is in the inbox
\* once, as the review-requested search saw it, after a newer PR that only
\* the assigned search returned and before one as old as itself.
C25_SharedPrOnce ==
    /\ hist.result # None
    /\ hist.review.ok
    /\ hist.assigned.ok
    /\ hist.review.val.prs = <<Pr1, PullRequest(OrgA, <<"z">>, 1, <<"z">>, <<"a">>, 1)>>
    /\ hist.assigned.val.prs = <<[Pr1 EXCEPT !.updated_at = 2, !.title = <<"b">>], Pr2>>
    /\ hist.result[1].val.prs =
           <<Pr2, Pr1, PullRequest(OrgA, <<"z">>, 1, <<"z">>, <<"a">>, 1)>>

\* C26: nav_nodes is the tree of the current orgs and nav_expanded in every
\* state: the reducer rebuilds it in the step that changes either.
C26_NavTreeNeverStale == state.nav_nodes = NavTree(state.orgs, state.nav_expanded)

\* Select on an expanded org that has repos collapsed it: its repo nodes
\* left the tree in that step.
C26_CollapsedInOneStep ==
    /\ Applied("Select")
    /\ Pre.nav_expanded \ state.nav_expanded # {}
    /\ Len(state.nav_nodes) < Len(Pre.nav_nodes)
    /\ \A i \in 1..Len(state.nav_nodes) : state.nav_nodes[i].kind # "Repo"

\* The fetch tasks for the repos of an owner that have not finished.
RepoTasks(bag, owner) ==
    BagCardinality([t \in {x \in BagToSet(bag) :
                              IsRepoFetch(x.effect) /\ x.effect.owner = owner} |-> bag[t]])

IsPlaceholder(item, owner) ==
    ~item.final /\ item.action = OrgRepos(owner, <<>>, RateLimitDefault)

IsRepoResult(item, owner) ==
    /\ item.final
    /\ \/ item.action.type = "DataLoaded" /\ item.action.kind = "OrgRepos"
             /\ item.action.org = owner
       \/ item.action.type = "LoadError" /\ item.action.msg.who = owner

\* C27: the loop applies the head of the queue and removes it, one event per
\* step; nothing else removes or reorders an event, so events are applied in
\* the order sent, none lost and none twice; a repo fetch is dispatched
\* together with its placeholder at the tail of the queue, so behind every
\* point of the queue there are no more placeholders of an owner than its
\* unfinished fetches and results: the placeholder of a fetch is applied
\* before that fetch's result.
C27_QueueAppliedInOrder ==
    /\ [][Receive =>
             /\ queue # <<>>
             /\ queue' = Tail(queue)
             /\ state' = update(state, Head(queue).action, now).state]_vars
    /\ [][(queue' # queue /\ ~Receive) =>
             /\ Len(queue') > Len(queue)
             /\ SubSeq(queue', 1, Len(queue)) = queue]_vars
    /\ [][\A owner \in Range(all_owners(config)) :
             RepoTasks(tasks', owner) > RepoTasks(tasks, owner) =>
                /\ RepoTasks(tasks', owner) = RepoTasks(tasks, owner) + 1
                /\ \E i \in (Len(queue) + 1)..Len(queue') : IsPlaceholder(queue'[i], owner)]_vars
    /\ [](\A owner \in Range(all_owners(config)) :
             \A k \in 0..Len(queue) :
                Cardinality({i \in (k + 1)..Len(queue) : IsPlaceholder(queue[i], owner)})
                   <= RepoTasks(tasks, owner)
                        + Cardinality({i \in (k + 1)..Len(queue) :
                                          IsRepoResult(queue[i], owner)}))

\* The placeholder of a second fetch of an owner's repos is on the queue
\* ahead of the result of the first, whose own placeholder has been applied.
C27_ResultBehindNextPlaceholder ==
    /\ hist.refreshes = 1
    /\ Len(queue) = 2
    /\ \E owner \in Range(all_owners(config)) :
          /\ IsPlaceholder(queue[1], owner)
          /\ IsRepoResult(queue[2], owner)
          /\ RepoTasks(tasks, owner) = 1

\* C28: under fair scheduling and an answering data source, while the
\* program runs every waiting task gets a permit and every task finishes,
\* after which all 4 permits are free; a task leaves only by a step that puts
\* exactly one result event (DataLoaded or LoadError) on the queue and frees
\* the permit it held, a result event is put only by such a step, and a task
\* that goes on puts nothing.
C28_EveryTaskFinishes ==
    /\ (Waiting # EmptyBag) ~> (Waiting = EmptyBag \/ ~Alive)
    /\ (tasks # EmptyBag) ~> ((tasks = EmptyBag /\ permits = Permits) \/ ~Alive)
    /\ [](Holding = EmptyBag => permits = Permits)
    /\ [][BagCardinality(tasks') < BagCardinality(tasks) =>
             \E t \in BagToSet(tasks) :
                /\ tasks' = Finish(t)
                /\ Len(queue') = Len(queue) + 1
                /\ SubSeq(queue', 1, Len(queue)) = queue
                /\ queue'[Len(queue')].final
                /\ queue'[Len(queue')].action.type \in {"DataLoaded", "LoadError"}
                /\ permits' = permits + (IF t.pc = "waiting" THEN 0 ELSE 1)]_vars
    /\ [][(\E i \in (Len(queue) + 1)..Len(queue') : queue'[i].final) =>
             BagCardinality(tasks') = BagCardinality(tasks) - 1]_vars
    /\ [][(tasks' # tasks /\ BagCardinality(tasks') = BagCardinality(tasks)) =>
             queue' = queue]_vars

\* All permits are held while a task waits: it can go on only after a
\* holder has returned its permit.
C28_WaitingBehindFourHolders ==
    /\ Alive
    /\ permits = 0
    /\ Waiting # EmptyBag
    /\ \E t \in BagToSet(Holding) : t.pc = "stored"

\* C29: a step that dispatches tasks takes no permit and leaves the new
\* tasks waiting; with all 4 permits held and no answer from the data source
\* the loop can still take a terminal event that the reducer turns into a
\* new state, every event it takes is applied through the reducer, the key
\* q (no error message shown, no search active) sets should_quit with the
\* permits still held, and the loop then exits.
C29_LoopNeverWaitsForPermit ==
    /\ [][BagCardinality(tasks') > BagCardinality(tasks) =>
             /\ permits' = permits
             /\ Holding' = Holding]_vars
    /\ []((Running /\ permits = 0) =>
             /\ ENABLED (TerminalEvent /\ state' # state /\ permits' = 0)
             /\ (state.error_message = None /\ ~state.search_active) =>
                   /\ map_event_to_action(Char("q"), state) = Some(Act("Quit"))
                   /\ ENABLED (TerminalEvent /\ state'.should_quit /\ permits' = 0
                                  /\ tasks' = tasks))
    /\ []((loop = "running" /\ state.should_quit /\ permits = 0) => ENABLED LoopExit)
    /\ [][(permits = 0 /\ TerminalEvent /\ state' # state) =>
             \E event \in TerminalEvents :
                /\ map_event_to_action(event, state) # None
                /\ state' = update(state, map_event_to_action(event, state)[1], now).state]_vars

\* The loop has exited on the key q while four tasks hold the permits in
\* calls the data source has not answered, and a fifth waits.
C29_QuitWithAllPermitsHeld ==
    /\ loop = "exited"
    /\ permits = 0
    /\ Waiting # EmptyBag
    /\ \A t \in BagToSet(Holding) : t.pc = "calling"

\* C30: counting the two searches of an inbox fetch separately, at most 4
\* data-source queries are in flight at the same time.
C30_QueriesWithinPermits == QueriesInFlight <= Permits

\* C31: two tasks for one key are not coalesced: each that finds no entry
\* calls the data source and writes, each delivers the result it fetched
\* itself, and once both have finished the entry is the complete value of
\* the write that happened last.
C31_LastWriteWins ==
    /\ []((tasks = EmptyBag /\ hist.written # None) =>
             get(cache, config.ttl_secs, cache_key(FetchOrgRepos(OrgA), config), now)
                = hist.written)
    /\ [][TaskDeliver =>
             \E t \in BagToSet(tasks) :
                /\ t.pc = "stored"
                /\ tasks' = Finish(t)
                /\ queue' = Append(queue, Item(Loaded(t.effect, config, t.res[1].data,
                                                      t.res[1].rate_limit), TRUE))]_vars

\* The node under the navigation cursor of the state Select was applied to.
Selected == Pre.nav_nodes[Pre.nav_cursor + 1]

\* C32: Select in the Navigation pane returns no intents and sets
\* content_cursor to 0; on an org node it toggles the org in nav_expanded,
\* shows OrgOverview(org), rebuilds the tree and leaves nav_cursor on that org
\* node, and a second Select restores nav_expanded and the tree; on a repo
\* node it shows RepoPrList(owner, name), on the virtual nodes Inbox or
\* AllOpenPrs, with nav_expanded unchanged.
C32_SelectInNavigation ==
    (Applied("Select") /\ Pre.focused_pane = "Navigation"
        /\ Pre.nav_cursor < Len(Pre.nav_nodes)) =>
       /\ hist.effects = <<>>
       /\ state.content_cursor = 0
       /\ Selected.kind = "Org" =>
             /\ state.nav_expanded =
                   IF Selected.org \in Pre.nav_expanded
                   THEN Pre.nav_expanded \ {Selected.org}
                   ELSE Pre.nav_expanded \cup {Selected.org}
             /\ state.content_view = ViewOrgOverview(Selected.org)
             /\ state.nav_nodes = NavTree(state.orgs, state.nav_expanded)
             /\ state.nav_cursor = Pre.nav_cursor
             /\ state.nav_nodes[state.nav_cursor + 1] = Selected
             /\ update(state, Act("Select"), now).state.nav_expanded = Pre.nav_expanded
             /\ update(state, Act("Select"), now).state.nav_nodes = Pre.nav_nodes
             /\ state = [update(state, Act("Select"), now).state
                            EXCEPT !.nav_expanded = state.nav_expanded,
                                   !.nav_nodes = state.nav_nodes]
       /\ Selected.kind # "Org" =>
             /\ state.content_view =
                   CASE Selected.kind = "Repo" -> ViewRepoPrList(Selected.owner, Selected.name)
                     [] Selected.kind = "AllPrs" -> ViewAllOpenPrs
                     [] Selected.kind = "MyInbox" -> ViewInbox
             /\ state = [Pre EXCEPT !.content_view = state.content_view,
                                    !.content_cursor = 0]

\* A collapsed org with repos was selected: it is expanded again, its repo
\* nodes follow it and the cursor is still on it.
C32_ExpandedAgain ==
    /\ Applied("Select")
    /\ Pre.focused_pane = "Navigation"
    /\ Pre.nav_cursor < Len(Pre.nav_nodes)
    /\ Selected.kind = "Org"
    /\ Selected.org \notin Pre.nav_expanded
    /\ Len(state.nav_nodes) > Len(Pre.nav_nodes)
    /\ state.nav_nodes[state.nav_cursor + 1] = Selected

\* C33: Back returns no intents and changes no data or cursor; the state it
\* leaves has no error message; it closes an active search (search_active
\* false, query empty) and, when no search was active and no error message
\* was shown, leaves the focus on Navigation.
C33_BackClearsError ==
    Applied("Back") =>
       /\ hist.effects = <<>>
       /\ state.error_message = None
       /\ ~state.search_active
       /\ state.search_query = (IF Pre.search_active THEN <<>> ELSE Pre.search_query)
       /\ state.focused_pane \in
             (IF Pre.search_active THEN {Pre.focused_pane}
              ELSE IF Pre.error_message # None THEN {Pre.focused_pane, "Navigation"}
              ELSE {"Navigation"})
       /\ state = [Pre EXCEPT !.error_message = state.error_message,
                              !.search_active = state.search_active,
                              !.search_query = state.search_query,
                              !.focused_pane = state.focused_pane]

\* The URL highlighted in the focused pane of s, if any: the PR at
\* content_cursor in the visible list, or the org or repo node at nav_cursor.
Highlighted(s) ==
    IF s.focused_pane = "Content"
    THEN IF s.content_cursor < Len(VisibleAsStated(s))
         THEN Some(pr_url(VisibleAsStated(s)[s.content_cursor + 1]))
         ELSE None
    ELSE IF s.nav_cursor >= Len(s.nav_nodes) THEN None
    ELSE LET node == s.nav_nodes[s.nav_cursor + 1]
         IN IF node.kind = "Org" THEN Some(<<node.org>>)
            ELSE IF node.kind = "Repo" THEN Some(<<node.owner \o <<"/">> \o node.name>>)
            ELSE None

\* C34: OpenUrl is returned only for Select in the Content pane and for
\* OpenInBrowser; these return OpenUrl of the highlighted URL (the PR at
\* content_cursor in the visible list, or for OpenInBrowser in Navigation the
\* org or repo node at nav_cursor), return nothing when nothing is
\* highlighted, and leave the state unchanged.
C34_OpenUrlOfHighlighted ==
    /\ (hist.ev # None /\ \E i \in 1..Len(hist.effects) : hist.effects[i].type = "OpenUrl") =>
          \/ Applied("Select") /\ Pre.focused_pane = "Content"
          \/ Applied("OpenInBrowser")
    /\ ((Applied("Select") /\ Pre.focused_pane = "Content") \/ Applied("OpenInBrowser")) =>
          /\ state = Pre
          /\ hist.effects = IF Highlighted(Pre) = None THEN <<>>
                            ELSE <<OpenUrl(Highlighted(Pre)[1])>>

\* Select in the Content pane during a search opened the second PR of the
\* inbox, the first of the visible list.
C34_OpenedFromFilteredList ==
    /\ Applied("Select")
    /\ Pre.focused_pane = "Content"
    /\ Pre.search_query # <<>>
    /\ Pre.content_view = ViewInbox
    /\ Pre.inbox = <<Pr2, Pr1>>
    /\ hist.effects = <<OpenUrl(pr_url(Pr1))>>

\* C35: ToggleSearch flips search_active and leaves the query empty, entering
\* and leaving; SearchInput and SearchBackspace applied during a search add
\* the character to, or remove the last character from, the end of the query
\* and set content_cursor to 0, and applied outside a search change nothing;
\* none of them returns an intent or changes anything else.
C35_SearchEditing ==
    /\ Applied("ToggleSearch") =>
          /\ hist.effects = <<>>
          /\ state = [Pre EXCEPT !.search_active = ~Pre.search_active,
                                 !.search_query = <<>>]
    /\ Applied("SearchInput") =>
          /\ hist.effects = <<>>
          /\ state = IF Pre.search_active
                     THEN [Pre EXCEPT !.search_query = Pre.search_query \o <<hist.ev[1].ch>>,
                                      !.content_cursor = 0]
                     ELSE Pre
    /\ Applied("SearchBackspace") =>
          /\ hist.effects = <<>>
          /\ state = IF Pre.search_active
                     THEN [Pre EXCEPT !.search_query =
                                          [i \in 1..(IF Len(Pre.search_query) = 0 THEN 0
                                                     ELSE Len(Pre.search_query) - 1) |->
                                              Pre.search_query[i]],
                                      !.content_cursor = 0]
                     ELSE Pre

\* A character typed with the content cursor on the second PR put the cursor
\* back on the first line.
C35_TypingResetsCursor ==
    /\ Applied("SearchInput")
    /\ Pre.search_active
    /\ Pre.content_cursor > 0
    /\ state.content_cursor = 0
    /\ Len(state.search_query) = Len(Pre.search_query) + 1

\* text can be obtained from pattern by replacing each "*" by a string.
RECURSIVE Instance(_, _)
Instance(pattern, text) ==
    IF pattern = <<>> THEN text = <<>>
    ELSE IF pattern[1] = "*"
    THEN \E k \in 0..Len(text) : Instance(Tail(pattern), SubSeq(text, k + 1, Len(text)))
    ELSE text # <<>> /\ text[1] = pattern[1] /\ Instance(Tail(pattern), Tail(text))

\* C36: glob_match(pattern, text) is true exactly when text is obtained from
\* pattern by replacing each "*" by a possibly empty string.
C36_GlobMatchesInstances ==
    hist.result # None => hist.result[1] = Instance(hist.pattern, hist.text)

\* The fetch tasks one RefreshAll starts: one per owner, the inbox and all
\* open PRs.
PerRefresh == Len(config.orgs) + Len(config.users) + 2

\* C37: in every state the reducer returns intents only for Refresh (one
\* RefreshAll), Select in the Content pane and OpenInBrowser (one OpenUrl);
\* applying an event from the queue starts no task and opens no URL; the
\* tasks started grow, by PerRefresh, exactly at the initial fetch and at each
\* Refresh applied, so their number is PerRefresh * (1 + Refresh transitions).
C37_OnlyRefreshStartsFetches ==
    /\ [](\A action \in ReducerActions :
             LET r == update(state, action, now)
             IN r.effects # <<>> =>
                   \/ action.type = "Refresh" /\ r.effects = <<RefreshAll>>
                   \/ /\ \/ action.type = "Select" /\ state.focused_pane = "Content"
                         \/ action.type = "OpenInBrowser"
                      /\ Len(r.effects) = 1
                      /\ r.effects[1].type = "OpenUrl")
    /\ [][Receive => (tasks' = tasks /\ opened' = opened
                         /\ hist'.refreshes = hist.refreshes)]_vars
    /\ [][BagCardinality(tasks') > BagCardinality(tasks) =>
             /\ BagCardinality(tasks') = BagCardinality(tasks) + PerRefresh
             /\ \/ loop = "start" /\ loop' = "running" /\ tasks = EmptyBag
                \/ loop = "running" /\ hist'.refreshes = hist.refreshes + 1]_vars
    /\ [][(hist'.refreshes # hist.refreshes \/ (loop = "start" /\ loop' # loop)) =>
             BagCardinality(tasks') = BagCardinality(tasks) + PerRefresh]_vars

\* A LoadError was applied while the tasks of the initial fetch and of one
\* Refresh, less the one that failed, are still running: no retry started.
C37_ErrorStartedNothing ==
    /\ hist.refreshes = 1
    /\ state.error_message # None
    /\ BagCardinality(tasks) = 2 * PerRefresh - 1
    /\ \A i \in 1..Len(queue) : ~queue[i].final

\* The loop applies the LoadError of a failed fetch of the owner's repos.
AppliesRepoError(owner) ==
    /\ Receive
    /\ Head(queue).action.type = "LoadError"
    /\ Head(queue).action.msg.what \in {"FetchOrgRepos", "FetchUserRepos"}
    /\ Head(queue).action.msg.who = owner

RECURSIVE Replay(_, _)
\* The state after the reducer has applied the actions of the sends, first
\* to last.
Replay(s, sends) ==
    IF sends = <<>> THEN s
    ELSE Replay(update(s, Head(sends).action, now).state, Tail(sends))

\* What the state holds for the fetch.
Slot(s, effect) ==
    CASE IsRepoFetch(effect) -> s.orgs[effect.owner].repos
      [] effect.type = "FetchInbox" -> s.inbox
      [] effect.type = "FetchAllOpenPrs" -> s.all_open_prs

\* The data of a DataLoaded action.
Carried(action) == IF action.kind = "OrgRepos" THEN action.repos ELSE action.prs

\* C39: the state is the one the reducer reaches by applying the results in
\* the order of their sends, whichever refresh dispatched the sender; once
\* both fetches have completed with data and both results are applied, the
\* state holds the data of the result sent last, also when that one is the
\* fetch the earlier refresh dispatched.
C39_AppliedInQueueOrder ==
    /\ Len(queue) <= Len(hist.sent)
    /\ state = Replay(OverlapStart(hist.what),
                      SubSeq(hist.sent, 1, Len(hist.sent) - Len(queue)))
    /\ (tasks = EmptyBag /\ queue = <<>> /\ Len(hist.sent) = 2
          /\ hist.sent[2].action.type = "DataLoaded") =>
            Slot(state, hist.what) = Carried(hist.sent[2].action)

\* The fetch of the second refresh sent its result first, the fetch of the
\* first refresh sent different data after it, both have been applied and
\* the state holds the data of the first refresh's fetch.
C39_EarlierFetchWins ==
    /\ tasks = EmptyBag
    /\ queue = <<>>
    /\ Len(hist.sent) = 2
    /\ hist.sent[1].seq = 2
    /\ hist.sent[2].seq = 1
    /\ hist.sent[1].action.type = "DataLoaded"
    /\ hist.sent[2].action.type = "DataLoaded"
    /\ Carried(hist.sent[1].action) # Carried(hist.sent[2].action)
    /\ Slot(state, hist.what) = Carried(hist.sent[2].action)

\* The node under the cursor.
UnderCursor(s) == s.nav_nodes[s.nav_cursor + 1]

\* The repo the content view names is the node under the cursor.
OnViewedRepo(s) ==
    /\ s.content_view.kind = "RepoPrList"
    /\ UnderCursor(s).kind = "Repo"
    /\ UnderCursor(s).owner = s.content_view.owner
    /\ UnderCursor(s).name = s.content_view.name

\* C40: applying the placeholder of an expanded owner leaves none of its repo
\* nodes in the tree and the cursor clamped into the shorter tree; applying a
\* result rebuilds the tree from the lists and leaves the cursor where the
\* placeholders put it, never moving it down again; the content view is the
\* one of before the refresh throughout; so when every owner's result has
\* brought the repos of before, the tree is the one of before and the cursor
\* is at or above its old place.
C40_CursorNotRestored ==
    /\ (Applied("DataLoaded") /\ hist.ev[1].repos = <<>>
           /\ hist.ev[1].org \in Pre.nav_expanded) =>
          /\ \A i \in 1..Len(state.nav_nodes) :
                state.nav_nodes[i].kind = "Repo" => state.nav_nodes[i].owner # hist.ev[1].org
          /\ state.nav_cursor < Len(state.nav_nodes)
          /\ state.nav_cursor =
                (IF Pre.nav_cursor >= Len(state.nav_nodes)
                 THEN Len(state.nav_nodes) - 1 ELSE Pre.nav_cursor)
    /\ (Applied("DataLoaded") /\ hist.ev[1].repos # <<>>) =>
          /\ state.nav_nodes = NavTree(state.orgs, state.nav_expanded)
          /\ state.nav_cursor = Pre.nav_cursor
    /\ state.nav_cursor <= hist.before.nav_cursor
    /\ state.content_view = hist.before.content_view
    /\ state.nav_expanded = hist.before.nav_expanded
    /\ (hist.steps > 0 /\ state.orgs = hist.before.orgs) =>
          state.nav_nodes = hist.before.nav_nodes

\* The refresh brought the repos of before for every owner: the tree is the
\* one of before, the cursor was on the repo the content view names and is
\* now on a different node, and the content view still names that repo.
C40_CursorOnAnotherNode ==
    /\ hist.got = Range(all_owners(config))
    /\ state.orgs = hist.before.orgs
    /\ state.nav_nodes = hist.before.nav_nodes
    /\ OnViewedRepo(hist.before)
    /\ state.content_view = hist.before.content_view
    /\ UnderCursor(state) # UnderCursor(hist.before)
    /\ ~OnViewedRepo(state)

====
